---- MODULE Spec2Model ----
(***************************************************************************)
(* Model of the Boogie code generator of kani-compiler:                    *)
(*   kani-compiler/src/codegen_boogie/context/boogie_ctx.rs                *)
(*   boogie_ast/src/boogie_program/mod.rs                                  *)
(* A function's MIR (typed locals, basic blocks of statements ended by a   *)
(* terminator) is lowered by a FunctionCtx into one Boogie procedure.      *)
(* A panic (todo!(), unwrap() of None, unreachable!(), failed assert) is   *)
(* the value PANIC of an operator and the state pc = "aborted".            *)
(***************************************************************************)
EXTENDS Integers, Sequences, FiniteSets, TLC

VARIABLES
    program,      \* BoogieCtx.program: functions, datatypes, procedures
    mir,          \* the Body under translation (statements are read as visited)
    ref_to_expr,  \* FunctionCtx.ref_to_expr: Place -> Expr
    decl,         \* result of codegen_declare_variables
    blocks,       \* codegen_body: the block statements collected so far
    cur,          \* codegen_block: lowered statements of the block being visited
    pos,          \* index into the reverse postorder of the block being visited
    pc,           \* position of the translator
    result,       \* the Procedure returned by codegen_function, or NoProcedure
    arg,          \* input of the function applied by a single-function specification
    ret           \* its output

vars == <<program, mir, ref_to_expr, decl, blocks, cur, pos, pc, result, arg, ret>>

----------------------------------------------------------------------------
(* Bounds *)

\* statements read in one function body
MaxStmts == 2
\* locals of a body given to codegen_declare_variables on its own
MaxLocals == 3
\* procedures added to one Program
MaxProcs == 2

----------------------------------------------------------------------------
(* Source types (rustc_middle::ty::TyKind), as far as the code inspects them *)

TyBool == [k |-> "Bool"]
TyChar == [k |-> "Char"]
TyInt(ity) == [k |-> "Int", ity |-> ity]
TyUint(uty) == [k |-> "Uint", uty |-> uty]
TyRef(m, ty) == [k |-> "Ref", mut |-> m, ty |-> ty]
TyRawPtr(ty) == [k |-> "RawPtr", ty |-> ty]
TyTuple(tys) == [k |-> "Tuple", tys |-> tys]
TyArray(ty) == [k |-> "Array", ty |-> ty]
TyUnit == TyTuple(<<>>)
\* an ADT: its path, its fields (name, type) and its generic type arguments
TyAdt(name, fields, args) == [k |-> "Adt", name |-> name, fields |-> fields, args |-> args]
TyFnDef(name) == [k |-> "FnDef", name |-> name]

IntTys == {"I8", "I16", "I32", "I64", "I128", "Isize"}
UintTys == {"U8", "U16", "U32", "U64", "U128", "Usize"}

\* IntTy::bit_width / UintTy::bit_width: None (0 here) for the pointer-sized type
bit_width(t) ==
    CASE t \in {"I8", "U8"} -> 8
      [] t \in {"I16", "U16"} -> 16
      [] t \in {"I32", "U32"} -> 32
      [] t \in {"I64", "U64"} -> 64
      [] t \in {"I128", "U128"} -> 128
      [] OTHER -> 0

\* a default of 32 bits for the pointer-sized integers
unwrap_or_32(opt, default) == IF opt = 0 THEN 32 ELSE opt

unwrap_or(opt, default) == IF opt = 0 THEN default ELSE opt

PhantomData == TyAdt("PhantomData", <<>>, <<>>)

\* the layout oracle: a type that occupies no storage
RECURSIVE is_zst(_)
is_zst(ty) ==
    CASE ty.k = "Tuple" -> \A i \in 1..Len(ty.tys) : is_zst(ty.tys[i])
      [] ty.k = "Adt" -> \A i \in 1..Len(ty.fields) : is_zst(ty.fields[i].ty)
      [] ty.k = "FnDef" -> TRUE
      [] OTHER -> FALSE

----------------------------------------------------------------------------
(* Boogie AST (boogie_program/mod.rs) *)

PANIC == [e |-> "PANIC", s |-> "PANIC", t |-> "PANIC"]
IsPanic(x) == x = PANIC

\* Type
BoogieBool == [t |-> "Bool"]
Bv(w) == [t |-> "Bv", width |-> w]
BoogieArray(elem, len) == [t |-> "Array", element_type |-> elem, len |-> len]
BoogieMap(key, value) == [t |-> "Map", key |-> key, value |-> value]
TypeParameter(name) == [t |-> "Parameter", name |-> name]
DataType(name, targs) == [t |-> "DataType", name |-> name, type_args |-> targs]

\* Literal
LiteralBool(b) == [l |-> "Bool", value |-> b]
LiteralBv(w, v) == [l |-> "Bv", width |-> w, value |-> v]

\* Expr
ExprLiteral(l) == [e |-> "Literal", lit |-> l]
Symbol(name) == [e |-> "Symbol", name |-> name]
ExprUnaryOp(op, o) == [e |-> "UnaryOp", op |-> op, operand |-> o]
ExprBinaryOp(op, l, r) == [e |-> "BinaryOp", op |-> op, left |-> l, right |-> r]
\* a call with its arguments in the opposite order
function_call_swapped(symbol, arguments) ==
    [e |-> "FunctionCall", symbol |-> symbol,
     arguments |-> [i \in 1..Len(arguments) |-> arguments[Len(arguments) + 1 - i]]]

function_call(symbol, arguments) == [e |-> "FunctionCall", symbol |-> symbol, arguments |-> arguments]
ExprIndex(base, index) == [e |-> "Index", base |-> base, index |-> index]
ExprField(base, field) == [e |-> "Field", base |-> base, field |-> field]
extract(base, high, low) == [e |-> "Extract", base |-> base, high |-> high, low |-> low]
sign_extend(o, width) == [e |-> "SignExtend", operand |-> o, width |-> width]
zero_extend(o, width) == [e |-> "ZeroExtend", operand |-> o, width |-> width]
ExprNot(o) == ExprUnaryOp("Not", o)

\* Stmt
Assignment(target, value) == [s |-> "Assignment", target |-> target, value |-> value]
Block(statements) == [s |-> "Block", statements |-> statements]
Decl(name, typ) == [s |-> "Decl", name |-> name, typ |-> typ]
If(c, body, else_body) == [s |-> "If", condition |-> c, body |-> body, else_body |-> else_body]
Goto(label) == [s |-> "Goto", label |-> label]
Label(label, statement) == [s |-> "Label", label |-> label, statement |-> statement]
Return == [s |-> "Return"]
Null == [s |-> "Null"]

\* a block constructor that wraps every list
block_always(statements) == Block(statements)

\* Stmt::block
block(statements) ==
    IF Len(statements) = 1 THEN statements[1] ELSE Block(statements)

Procedure(name, parameters, return_parameters, contract, body) ==
    [name |-> name, parameters |-> parameters, return_parameters |-> return_parameters,
     contract |-> contract, body |-> body]

----------------------------------------------------------------------------
(* MIR: places, operands, r-values, statements, terminators *)

\* ProjectionElem
Deref == [p |-> "Deref"]
FieldProj(f, ty) == [p |-> "Field", f |-> f, ty |-> ty]
IndexProj(local) == [p |-> "Index", local |-> local]
Downcast == [p |-> "Downcast"]

Place(local, projection) == [local |-> local, projection |-> projection]

\* Operand
Copy(place) == [o |-> "Copy", place |-> place]
Move(place) == [o |-> "Move", place |-> place]
\* a constant: the kind of mir::Const, of ConstValue, of Scalar, the integer the
\* scalar denotes at its type, and the type
Constant(ck, vk, sk, value, ty) ==
    [o |-> "Constant", ck |-> ck, vk |-> vk, sk |-> sk, value |-> value, ty |-> ty]
ConstScalar(value, ty) == Constant("Val", "Scalar", "Int", value, ty)

\* Rvalue
Use(operand) == [r |-> "Use", operand |-> operand]
RvUnaryOp(op, operand) == [r |-> "UnaryOp", op |-> op, operand |-> operand]
RvBinaryOp(binop, lhs, rhs) == [r |-> "BinaryOp", binop |-> binop, lhs |-> lhs, rhs |-> rhs]
RvCheckedBinaryOp(binop, lhs, rhs) ==
    [r |-> "CheckedBinaryOp", binop |-> binop, lhs |-> lhs, rhs |-> rhs]
\* Rvalue::Ref with its BorrowKind ("Shared" or "Mut")
Ref(bk, place) == [r |-> "Ref", bk |-> bk, place |-> place]
Cast(kind, operand, ty) == [r |-> "Cast", kind |-> kind, operand |-> operand, ty |-> ty]
RvLen(place) == [r |-> "Len", place |-> place]

\* StatementKind
Assign(place, rvalue) == [k |-> "Assign", place |-> place, rvalue |-> rvalue]
OtherStatementKinds ==
    {"FakeRead", "SetDiscriminant", "Deinit", "StorageLive", "StorageDead", "Retag",
     "PlaceMention", "AscribeUserType", "Coverage", "Intrinsic", "ConstEvalCounter", "Nop"}

\* TerminatorKind
TermReturn == [t |-> "Return"]
TermGoto(target) == [t |-> "Goto", target |-> target]
\* SwitchTargets: the (value, target) arms and the otherwise target
SwitchInt(discr, arms, otherwise) ==
    [t |-> "SwitchInt", discr |-> discr, arms |-> arms, otherwise |-> otherwise]
TermCall(func, target) == [t |-> "Call", func |-> func, target |-> target]
TermAssert(target) == [t |-> "Assert", target |-> target]
TermDrop(target) == [t |-> "Drop", target |-> target]
TermUnreachable == [t |-> "Unreachable"]

\* format!("{lc:?}") of a Local and format!("{bb:?}") of a BasicBlock
LocalNames == <<"_0", "_1", "_2", "_3", "_4", "_5", "_6", "_7", "_8", "_9">>
BlockNames == <<"bb0", "bb1", "bb2", "bb3", "bb4", "bb5">>
LocalName(lc) == LocalNames[lc + 1]
BlockName(bb) == BlockNames[bb + 1]

\* mir.local_decls()[local].ty
LocalTy(body, local) == body.local_decls[local + 1]

\* PlaceTy: the type of a place, by its projections
RECURSIVE ProjTy(_, _, _)
ProjTy(ty, proj, i) ==
    IF i > Len(proj) THEN ty
    ELSE LET pe == proj[i] IN
         ProjTy(CASE pe.p = "Deref" -> ty.ty
                  [] pe.p = "Field" -> pe.ty
                  [] pe.p = "Index" -> ty.ty
                  [] OTHER -> ty,
                proj, i + 1)

PlaceTy(body, place) == ProjTy(LocalTy(body, place.local), place.projection, 1)

\* FunctionCtx::operand_ty
operand_ty(body, o) ==
    IF o.o = "Constant" THEN o.ty ELSE PlaceTy(body, o.place)

----------------------------------------------------------------------------
(* Type lowering and declarations *)

\* FunctionCtx::codegen_type
RECURSIVE codegen_type(_)
codegen_type(ty) ==
    CASE ty.k = "Bool" -> BoogieBool
      [] ty.k = "Int" -> Bv(unwrap_or(bit_width(ty.ity), 64))
      [] ty.k = "Uint" -> Bv(unwrap_or(bit_width(ty.uty), 64))
      [] ty.k = "Array" ->
            LET elem == codegen_type(ty.ty)
            IN  IF IsPanic(elem) THEN PANIC ELSE BoogieArray(elem, 0)
      [] ty.k = "Tuple" ->
            IF Len(ty.tys) = 0 THEN PANIC ELSE codegen_type(ty.tys[1])
      [] ty.k = "Adt" ->
            IF ty.name = "kani::array::Array"
            THEN LET zst_fields == {i \in 1..Len(ty.fields) : is_zst(ty.fields[i].ty)}
                 IN  IF Cardinality(zst_fields) # 1 THEN PANIC
                     ELSE LET f == CHOOSE i \in zst_fields : TRUE
                          IN  IF ty.fields[f].ty # PhantomData THEN PANIC
                              ELSE IF Len(ty.args) # 1 THEN PANIC
                              ELSE LET typ == codegen_type(ty.args[1])
                                   IN  IF IsPanic(typ) THEN PANIC
                                       ELSE DataType("$UnboundedArray", <<typ>>)
            ELSE PANIC
      [] ty.k = "Ref" ->
            IF ~ty.mut THEN codegen_type(ty.ty) ELSE PANIC
      [] OTHER -> PANIC

\* the closure skipping every reference, mutable or not
declare_local_no_ref(ldecls, lc) ==
    LET typ == ldecls[lc + 1]
    IN  IF is_zst(typ) THEN <<>>
        ELSE IF typ.k = "Ref" THEN <<>>
        ELSE LET boogie_type == codegen_type(typ)
             IN  IF IsPanic(boogie_type) THEN <<PANIC>>
                 ELSE <<Decl(LocalName(lc), boogie_type)>>

\* the filter_map closure of codegen_declare_variables, for the local lc:
\* <<>> when the local is skipped, <<Decl>> otherwise
declare_local(ldecls, lc) ==
    LET typ == ldecls[lc + 1]
    IN  IF is_zst(typ) THEN <<>>
        ELSE IF typ.k = "Ref" /\ typ.mut THEN <<>>
        ELSE LET boogie_type == codegen_type(typ)
             IN  IF IsPanic(boogie_type) THEN <<PANIC>>
                 ELSE <<Decl(LocalName(lc), boogie_type)>>

RECURSIVE declare_from(_, _)
declare_from(ldecls, lc) ==
    IF lc >= Len(ldecls) THEN <<>>
    ELSE declare_local(ldecls, lc) \o declare_from(ldecls, lc + 1)

\* FunctionCtx::codegen_declare_variables: the Decls in local-index order;
\* panicked when the lowering of some declared local's type panics
codegen_declare_variables(ldecls) ==
    LET decls == declare_from(ldecls, 0)
    IN  IF \E i \in 1..Len(decls) : IsPanic(decls[i])
        THEN [panicked |-> TRUE, decls |-> <<>>]
        ELSE [panicked |-> FALSE, decls |-> decls]

----------------------------------------------------------------------------
(* Builtin registry *)

SmtBvBuiltin ==
    <<"UnsignedLessThan", "SignedLessThan", "Add", "Or", "And", "Shl", "Shr", "Not">>

\* an AsRefStr that names the unsigned comparison for both less-than entries
as_ref_unsigned(b) ==
    CASE b \in {"UnsignedLessThan", "SignedLessThan"} -> "$BvUnsignedLessThan"
      [] b = "Add" -> "$BvAdd"
      [] b = "Or" -> "$BvOr"
      [] b = "And" -> "$BvAnd"
      [] b = "Shl" -> "$BvShl"
      [] b = "Shr" -> "$BvShr"
      [] b = "Not" -> "BvNot"

\* strum's AsRefStr of SmtBvBuiltin
as_ref(b) ==
    CASE b = "UnsignedLessThan" -> "$BvUnsignedLessThan"
      [] b = "SignedLessThan" -> "$BvSignedLessThan"
      [] b = "Add" -> "$BvAdd"
      [] b = "Or" -> "$BvOr"
      [] b = "And" -> "$BvAnd"
      [] b = "Shl" -> "$BvShl"
      [] b = "Shr" -> "$BvShr"
      [] b = "Not" -> "BvNot"

----------------------------------------------------------------------------
(* Expression, operand and constant lowering *)

\* FunctionCtx::codegen_local
codegen_local(local) == Symbol(LocalName(local))

\* the closure folded over place.projection by codegen_place
place_fold(local_ty, acc, proj) ==
    CASE proj.p = "Index" -> ExprIndex(acc, codegen_local(proj.local))
      [] proj.p = "Field" ->
            (CASE local_ty.k = "Adt" ->
                    IF proj.f + 1 \in 1..Len(local_ty.fields)
                    THEN ExprField(acc, local_ty.fields[proj.f + 1].name)
                    ELSE PANIC
               [] local_ty.k = "Tuple" -> acc
               [] OTHER -> PANIC)
      [] OTHER -> acc

RECURSIVE fold_projection(_, _, _, _)
fold_projection(local_ty, acc, projection, i) ==
    IF i > Len(projection) \/ IsPanic(acc) THEN acc
    ELSE fold_projection(local_ty, place_fold(local_ty, acc, projection[i]), projection, i + 1)

\* FunctionCtx::codegen_place
codegen_place(body, refs, place) ==
    IF place \in DOMAIN refs THEN refs[place]
    ELSE fold_projection(LocalTy(body, place.local), codegen_local(place.local),
                         place.projection, 1)

\* a codegen_scalar that writes every integer at 64 bits
codegen_scalar_64(c) ==
    CASE c.sk = "Int" /\ c.ty.k = "Bool" ->
            IF c.value \in {0, 1} THEN ExprLiteral(LiteralBool(c.value = 1)) ELSE PANIC
      [] c.sk = "Int" /\ c.ty.k \in {"Int", "Uint"} ->
            ExprLiteral(LiteralBv(64, c.value))
      [] OTHER -> PANIC

\* FunctionCtx::codegen_scalar
codegen_scalar(c) ==
    CASE c.sk = "Int" /\ c.ty.k = "Bool" ->
            IF c.value \in {0, 1} THEN ExprLiteral(LiteralBool(c.value = 1)) ELSE PANIC
      [] c.sk = "Int" /\ c.ty.k = "Int" ->
            ExprLiteral(LiteralBv(unwrap_or(bit_width(c.ty.ity), 64), c.value))
      [] c.sk = "Int" /\ c.ty.k = "Uint" ->
            ExprLiteral(LiteralBv(unwrap_or(bit_width(c.ty.uty), 64), c.value))
      [] OTHER -> PANIC

\* FunctionCtx::codegen_constant_value
codegen_constant_value(c) ==
    IF c.vk = "Scalar" THEN codegen_scalar(c) ELSE PANIC

\* FunctionCtx::codegen_constant
codegen_constant(c) ==
    IF c.ck = "Val" THEN codegen_constant_value(c) ELSE PANIC

\* FunctionCtx::codegen_operand
codegen_operand(body, refs, o) ==
    IF o.o = "Constant" THEN codegen_constant(o) ELSE codegen_place(body, refs, o.place)

NoneStmt == [s |-> "None"]

\* FunctionCtx::codegen_unary_op
codegen_unary_op(body, refs, op, operand) ==
    LET o == codegen_operand(body, refs, operand)
    IN  IF IsPanic(o) THEN <<NoneStmt, PANIC>>
        ELSE IF op = "Not" THEN <<NoneStmt, ExprUnaryOp("Not", o)>>
        ELSE <<NoneStmt, function_call(as_ref("Not"), <<o>>)>>

\* FunctionCtx::codegen_binary_op
codegen_binary_op(body, refs, binop, lhs, rhs) ==
    LET left == codegen_operand(body, refs, lhs)
        right == codegen_operand(body, refs, rhs)
        left_type == operand_ty(body, lhs)
        expr ==
          CASE binop = "Eq" -> ExprBinaryOp("Eq", left, right)
            [] binop \in {"AddUnchecked", "Add"} ->
                  IF operand_ty(body, rhs) # left_type THEN PANIC
                  ELSE IF left_type.k \in {"Int", "Uint"}
                       THEN function_call(as_ref("Add"), <<left, right>>)
                       ELSE PANIC
            [] binop \in {"Lt", "Ge"} ->
                  IF left_type # operand_ty(body, rhs) THEN PANIC
                  ELSE IF left_type.k \notin {"Int", "Uint"} THEN PANIC
                  ELSE LET bv_func == IF left_type.k = "Int" THEN "SignedLessThan"
                                      ELSE "UnsignedLessThan"
                           call == function_call(as_ref(bv_func), <<left, right>>)
                       IN  IF binop = "Lt" THEN call ELSE ExprNot(call)
            [] binop = "BitAnd" -> function_call(as_ref("And"), <<left, right>>)
            [] binop = "BitOr" -> function_call(as_ref("Or"), <<left, right>>)
            [] binop = "Shr" -> function_call(as_ref("Shr"), <<left, right>>)
            [] binop = "Shl" -> function_call(as_ref("Shl"), <<left, right>>)
            [] OTHER -> PANIC
    IN  IF IsPanic(left) \/ IsPanic(right) THEN <<NoneStmt, PANIC>>
        ELSE <<NoneStmt, expr>>

\* the cast extracting whenever the target is not wider than the source
codegen_cast_extract_equal(body, refs, kind, operand, ty) ==
    IF kind = "IntToInt"
    THEN LET from_type == operand_ty(body, operand)
             o == codegen_operand(body, refs, operand)
             from == codegen_type(from_type)
             to == codegen_type(ty)
         IN  IF IsPanic(o) \/ IsPanic(from) \/ IsPanic(to) THEN PANIC
             ELSE IF from.t # "Bv" \/ to.t # "Bv" THEN PANIC
             ELSE IF from.width >= to.width THEN extract(o, to.width, 0)
             ELSE (CASE from_type.k = "Int" -> sign_extend(o, to.width - from.width)
                     [] from_type.k = "Uint" -> zero_extend(o, to.width - from.width)
                     [] OTHER -> PANIC)
    ELSE PANIC

\* the cast extending by the signedness of the target type instead of the source's
codegen_cast_by_target(body, refs, kind, operand, ty) ==
    IF kind = "IntToInt"
    THEN LET from_type == operand_ty(body, operand)
             o == codegen_operand(body, refs, operand)
             from == codegen_type(from_type)
             to == codegen_type(ty)
         IN  IF IsPanic(o) \/ IsPanic(from) \/ IsPanic(to) THEN PANIC
             ELSE IF from.t # "Bv" \/ to.t # "Bv" THEN PANIC
             ELSE IF from.width > to.width THEN extract(o, to.width, 0)
             ELSE IF from.width < to.width
                  THEN (CASE ty.k = "Int" -> sign_extend(o, to.width - from.width)
                          [] ty.k = "Uint" -> zero_extend(o, to.width - from.width)
                          [] OTHER -> PANIC)
             ELSE o
    ELSE PANIC

\* the Rvalue::Cast arm of codegen_rvalue
codegen_cast(body, refs, kind, operand, ty) ==
    IF kind = "IntToInt"
    THEN LET from_type == operand_ty(body, operand)
             o == codegen_operand(body, refs, operand)
             from == codegen_type(from_type)
             to == codegen_type(ty)
         IN  IF IsPanic(o) \/ IsPanic(from) \/ IsPanic(to) THEN PANIC
             ELSE IF from.t # "Bv" \/ to.t # "Bv" THEN PANIC
             ELSE IF from.width > to.width THEN extract(o, to.width, 0)
             ELSE IF from.width < to.width
                  THEN (CASE from_type.k = "Int" -> sign_extend(o, to.width - from.width)
                          [] from_type.k = "Uint" -> zero_extend(o, to.width - from.width)
                          [] OTHER -> PANIC)
             ELSE o
    ELSE PANIC

\* FunctionCtx::codegen_rvalue: the optional side statement and the expression
codegen_rvalue(body, refs, rvalue) ==
    CASE rvalue.r = "Use" -> <<NoneStmt, codegen_operand(body, refs, rvalue.operand)>>
      [] rvalue.r = "UnaryOp" -> codegen_unary_op(body, refs, rvalue.op, rvalue.operand)
      [] rvalue.r \in {"BinaryOp", "CheckedBinaryOp"} ->
            codegen_binary_op(body, refs, rvalue.binop, rvalue.lhs, rvalue.rhs)
      [] rvalue.r = "Ref" -> <<NoneStmt, codegen_place(body, refs, rvalue.place)>>
      [] rvalue.r = "Cast" ->
            <<NoneStmt, codegen_cast(body, refs, rvalue.kind, rvalue.operand, rvalue.ty)>>
      [] OTHER -> <<NoneStmt, PANIC>>

----------------------------------------------------------------------------
(* Statement and terminator lowering *)

\* Expr::to_string: the rendering of an expression, as its sequence of tokens
RECURSIVE to_string(_)
to_string(expr) ==
    CASE expr.e = "Symbol" -> <<expr.name>>
      [] expr.e = "Index" -> to_string(expr.base) \o <<"[">> \o to_string(expr.index) \o <<"]">>
      [] expr.e = "Field" -> to_string(expr.base) \o <<"->", expr.field>>
      [] OTHER -> <<"(", expr.e, ")">>

\* add_statement
add_statement(s1, s2) ==
    IF s1 = NoneStmt THEN s2
    ELSE IF s1.s = "Block" THEN Block(Append(s1.statements, s2))
    ELSE Block(<<s1, s2>>)

\* is_deref looking for a second projection
is_deref_two(p) ==
    Len(p.projection) = 2 /\ p.projection[1] = Deref

\* is_deref
is_deref(p) ==
    Len(p.projection) = 1 /\ p.projection[1] = Deref

\* an insert that keeps the entry already there
insert_first(refs, place, expr) ==
    [p \in DOMAIN refs \cup {place} |-> IF p \in DOMAIN refs THEN refs[p] ELSE expr]

\* HashMap::insert
insert(refs, place, expr) ==
    [p \in DOMAIN refs \cup {place} |-> IF p = place THEN expr ELSE refs[p]]

\* a codegen_statement that lowers every other statement kind to the no-op
codegen_statement_nop(body, refs, stmt) ==
    IF stmt.k = "Assign"
    THEN LET place == stmt.place
             rvalue == stmt.rvalue
             place_name == <<LocalName(place.local)>>
         IN  IF rvalue.r = "Ref"
             THEN LET expr == codegen_place(body, refs, rvalue.place)
                  IN  IF IsPanic(expr) THEN [stmt |-> PANIC, refs |-> refs]
                      ELSE [stmt |-> Null, refs |-> insert(refs, place, expr)]
             ELSE IF is_deref(place)
             THEN LET base == Place(place.local, <<>>)
                  IN  IF base \notin DOMAIN refs THEN [stmt |-> PANIC, refs |-> refs]
                      ELSE LET expr == refs[base]
                               rv == codegen_rvalue(body, refs, rvalue)
                           IN  IF IsPanic(rv[2]) THEN [stmt |-> PANIC, refs |-> refs]
                               ELSE [stmt |-> add_statement(rv[1],
                                                Assignment(to_string(expr), rv[2])),
                                     refs |-> refs]
             ELSE LET rv == codegen_rvalue(body, refs, rvalue)
                  IN  IF IsPanic(rv[2]) THEN [stmt |-> PANIC, refs |-> refs]
                      ELSE [stmt |-> add_statement(rv[1], Assignment(place_name, rv[2])),
                            refs |-> refs]
    ELSE [stmt |-> Null, refs |-> refs]

\* FunctionCtx::codegen_statement: the lowered statement and the alias table after it
codegen_statement(body, refs, stmt) ==
    IF stmt.k = "Assign"
    THEN LET place == stmt.place
             rvalue == stmt.rvalue
             place_name == <<LocalName(place.local)>>
         IN  IF rvalue.r = "Ref"
             THEN LET expr == codegen_place(body, refs, rvalue.place)
                  IN  IF IsPanic(expr) THEN [stmt |-> PANIC, refs |-> refs]
                      ELSE [stmt |-> Null, refs |-> insert(refs, place, expr)]
             ELSE IF is_deref(place)
             THEN LET base == Place(place.local, <<>>)
                  IN  IF base \notin DOMAIN refs THEN [stmt |-> PANIC, refs |-> refs]
                      ELSE LET expr == refs[base]
                               rv == codegen_rvalue(body, refs, rvalue)
                           IN  IF IsPanic(rv[2]) THEN [stmt |-> PANIC, refs |-> refs]
                               ELSE [stmt |-> add_statement(rv[1],
                                                Assignment(to_string(expr), rv[2])),
                                     refs |-> refs]
             ELSE LET rv == codegen_rvalue(body, refs, rvalue)
                  IN  IF IsPanic(rv[2]) THEN [stmt |-> PANIC, refs |-> refs]
                      ELSE [stmt |-> add_statement(rv[1], Assignment(place_name, rv[2])),
                            refs |-> refs]
    ELSE [stmt |-> PANIC, refs |-> refs]

\* the intrinsic table of kani_intrinsic: the callees lowered by their own handler
KaniIntrinsics == {"KaniAssert", "KaniAssume"}
get_kani_intrinsic(name) == name \in KaniIntrinsics

\* FunctionCtx::codegen_kani_intrinsic: the statement the handler of the intrinsic yields
codegen_kani_intrinsic(intrinsic, target) ==
    [s |-> "Intrinsic", intrinsic |-> intrinsic, target |-> BlockName(target)]

\* codegen_funcall handing every function item to the intrinsic handler
codegen_funcall_any(body, func, target) ==
    LET funct == operand_ty(body, func)
    IN  IF funct.k = "FnDef" THEN codegen_kani_intrinsic(funct.name, target) ELSE PANIC

\* FunctionCtx::codegen_funcall
codegen_funcall(body, func, target) ==
    LET funct == operand_ty(body, func)
    IN  IF funct.k = "FnDef"
        THEN IF get_kani_intrinsic(funct.name)
             THEN codegen_kani_intrinsic(funct.name, target)
             ELSE PANIC
        ELSE PANIC

\* FunctionCtx::codegen_switch_int
codegen_switch_int(body, refs, discr, arms, otherwise) ==
    LET op == codegen_operand(body, refs, discr)
    IN  IF IsPanic(op) THEN PANIC
        ELSE IF Len(arms) + 1 = 2
        THEN LET then == arms[1]
                 discr_ty == operand_ty(body, discr)
                 right == CASE discr_ty.k = "Bool" -> LiteralBool(then[1] # 0)
                            [] discr_ty.k = "Uint" -> LiteralBv(128, then[1])
                            [] OTHER -> PANIC
             IN  IF IsPanic(right) THEN PANIC
                 ELSE If(ExprBinaryOp("Eq", op, ExprLiteral(right)),
                         Goto(BlockName(then[2])),
                         Goto(BlockName(otherwise)))
        ELSE PANIC

\* a codegen_terminator that jumps to the block after the target
codegen_terminator_off(body, refs, term) ==
    CASE term.t = "Call" -> codegen_funcall(body, term.func, term.target)
      [] term.t = "Return" -> Return
      [] term.t = "Goto" -> Goto(BlockName(term.target + 1))
      [] term.t = "SwitchInt" ->
            codegen_switch_int(body, refs, term.discr, term.arms, term.otherwise)
      [] term.t = "Assert" -> Block(<<>>)
      [] OTHER -> PANIC

\* FunctionCtx::codegen_terminator
codegen_terminator(body, refs, term) ==
    CASE term.t = "Call" -> codegen_funcall(body, term.func, term.target)
      [] term.t = "Return" -> Return
      [] term.t = "Goto" -> Goto(BlockName(term.target))
      [] term.t = "SwitchInt" ->
            codegen_switch_int(body, refs, term.discr, term.arms, term.otherwise)
      [] term.t = "Assert" -> Block(<<>>)
      [] OTHER -> PANIC

----------------------------------------------------------------------------
(* Block order *)

\* Terminator::successors
successors(term) ==
    CASE term.t \in {"Goto", "Call", "Assert", "Drop"} -> <<term.target>>
      [] term.t = "SwitchInt" ->
            [i \in 1..Len(term.arms) |-> term.arms[i][2]] \o <<term.otherwise>>
      [] OTHER -> <<>>

\* depth-first postorder from bb: st is [visited |-> set of blocks, post |-> sequence]
RECURSIVE postorder_from(_, _, _)
RECURSIVE postorder_succs(_, _, _, _)
postorder_from(bbs, bb, st) ==
    IF bb \in st.visited THEN st
    ELSE LET st1 == postorder_succs(bbs, successors(bbs[bb + 1].terminator), 1,
                                    [visited |-> st.visited \cup {bb}, post |-> st.post])
         IN  [visited |-> st1.visited, post |-> Append(st1.post, bb)]
postorder_succs(bbs, succs, i, st) ==
    IF i > Len(succs) THEN st
    ELSE postorder_succs(bbs, succs, i + 1, postorder_from(bbs, succs[i], st))

Reverse(seq) == [i \in 1..Len(seq) |-> seq[Len(seq) + 1 - i]]

\* a traversal in postorder, not reversed
postorder(body) ==
    postorder_from(body.blocks, 0, [visited |-> {}, post |-> <<>>]).post

\* rustc_middle::mir::traversal::reverse_postorder, from START_BLOCK (bb0)
reverse_postorder(body) ==
    Reverse(postorder_from(body.blocks, 0, [visited |-> {}, post |-> <<>>]).post)

----------------------------------------------------------------------------
(* Translation context *)

Parameter(name, typ) == [name |-> name, typ |-> typ]

\* SmtBvBuiltin::smt_op_name
smt_op_name(b) ==
    CASE b = "UnsignedLessThan" -> "bvult"
      [] b = "SignedLessThan" -> "bvslt"
      [] b = "Add" -> "bvadd"
      [] b = "Or" -> "bvor"
      [] b = "And" -> "bvand"
      [] b = "Shl" -> "bvshl"
      [] b = "Shr" -> "bvlshr"
      [] b = "Not" -> "bvnot"

\* an is_predicate that knows the unsigned comparison only
is_predicate_unsigned(b) == b = "UnsignedLessThan"

\* SmtBvBuiltin::is_predicate
is_predicate(b) == b \in {"UnsignedLessThan", "SignedLessThan"}

\* smt_builtin_binop
smt_builtin_binop(bv_builtin, smt_name, predicate) ==
    [name |-> <<bv_builtin, "<", "T", ">">>,
     parameters |-> <<Parameter("lhs", TypeParameter("T")), Parameter("rhs", TypeParameter("T"))>>,
     return_type |-> IF predicate THEN BoogieBool ELSE TypeParameter("T"),
     body |-> "None",
     attributes |-> <<<<":bvbuiltin", smt_name>>>>]

\* BoogieCtx::add_preamble, on the empty BoogieProgram
add_preamble ==
    [functions |-> [i \in 1..Len(SmtBvBuiltin) |->
                      smt_builtin_binop(as_ref(SmtBvBuiltin[i]), smt_op_name(SmtBvBuiltin[i]),
                                        is_predicate(SmtBvBuiltin[i]))],
     datatypes |-> <<[name |-> "$UnboundedArray",
                      type_parameters |-> <<"T">>,
                      constructors |-> <<[name |-> "$UnboundedArray",
                                          parameters |->
                                            <<Parameter("data", BoogieMap(Bv(64), TypeParameter("T"))),
                                              Parameter("len", Bv(64))>>]>>]>>,
     procedures |-> <<>>]

\* an add_procedure that writes the list anew from the procedure alone
add_procedure_lost(prog, procedure) ==
    [prog EXCEPT !.procedures = <<procedure>>]

\* an add_procedure that puts the procedure first
add_procedure_front(prog, procedure) ==
    [prog EXCEPT !.procedures = <<procedure>> \o @]

\* BoogieProgram::add_procedure
add_procedure(prog, procedure) ==
    [prog EXCEPT !.procedures = Append(@, procedure)]

NoProcedure == [name |-> "None"]
NoBody == [name |-> "None", intrinsic |-> FALSE, rvalues |-> {}, local_decls |-> <<>>, blocks |-> <<>>]
NoArg == [f |-> "None"]

----------------------------------------------------------------------------
(* The functions given to the translator *)

U8 == TyUint("U8")
U32 == TyUint("U32")
I32 == TyInt("I32")
Usize == TyUint("Usize")
MutRef(ty) == TyRef(TRUE, ty)

BasicBlockData(term) == [statements |-> <<>>, terminator |-> term]

\* a body before any of its statements is read: the operand and r-value kinds its
\* statements use ("Const", "Copy", "Move", "Ref", "BinaryOp", "Cast"),
\* its locals and its control-flow graph
Body(name, rvalues, local_decls, terms) ==
    [name |-> name, intrinsic |-> FALSE, rvalues |-> rvalues, local_decls |-> local_decls,
     blocks |-> [i \in 1..Len(terms) |-> BasicBlockData(terms[i])]]

\* _0 _1: u32, _2 _3: &mut u32, _4: &mut &mut u32
AliasLocals == <<U32, U32, MutRef(U32), MutRef(U32), MutRef(MutRef(U32))>>
\* _0 _1: u32, _2: &mut u32
BranchLocals == <<U32, U32, MutRef(U32)>>
\* _0: (), _1: [u32; N], _2 _3: usize, _4: (u32, u32)
ProjLocals == <<TyUnit, TyArray(U32), Usize, Usize, TyTuple(<<U32, U32>>)>>
\* _0: bool, _1: u32, _2: u8, _3: i32, _4 _5: function items
ArithLocals == <<TyBool, U32, U8, I32, TyFnDef("callee"), TyFnDef("KaniAssume")>>

Functions ==
    { Body("alias1", {"Const", "Move", "Ref"}, AliasLocals, <<TermReturn>>),
      Body("alias2", {"Const", "Ref"}, BranchLocals, <<TermGoto(2), TermReturn, TermReturn>>),
      Body("proj", {"Const", "Copy"}, ProjLocals, <<TermReturn>>),
      Body("arith", {"Const", "BinaryOp", "Cast"}, ArithLocals, <<TermReturn>>),
      Body("branch", {"Const"}, ArithLocals,
           <<SwitchInt(Copy(Place(0, <<>>)), <<<<0, 1>>>>, 2), TermGoto(2), TermReturn>>),
      Body("switch3", {"Const"}, ArithLocals,
           <<SwitchInt(Copy(Place(1, <<>>)), <<<<0, 1>>, <<1, 1>>>>, 2), TermGoto(2), TermReturn>>),
      Body("call", {"Const"}, ArithLocals,
           <<TermCall(Copy(Place(4, <<>>)), 1), TermReturn>>),
      Body("assert", {"Const"}, ArithLocals, <<TermAssert(1), TermReturn>>),
      Body("diamond", {"Const"}, <<TyBool, U32>>,
           <<SwitchInt(Copy(Place(0, <<>>)), <<<<0, 1>>>>, 2), TermGoto(3), TermAssert(3),
             TermReturn>>),
      [Body("KaniAssume", {}, <<TyUnit, TyBool>>, <<TermReturn>>) EXCEPT !.intrinsic = TRUE] }

Locals(body) == 0..(Len(body.local_decls) - 1)
LocalsOf(body, ty) == {l \in Locals(body) : LocalTy(body, l) = ty}

\* the places of a local with at most one projection
Projections(body, l) ==
    LET ty == LocalTy(body, l)
    IN  {<<>>} \cup
        (CASE ty.k = "Ref" -> {<<Deref>>}
           [] ty.k = "Array" -> {<<IndexProj(i)>> : i \in LocalsOf(body, Usize)}
           [] ty.k = "Adt" -> {<<FieldProj(f - 1, ty.fields[f].ty)>> : f \in 1..Len(ty.fields)}
           [] ty.k = "Tuple" -> {<<FieldProj(f - 1, ty.tys[f])>> : f \in 1..Len(ty.tys)}
           [] OTHER -> {})

Places(body) == UNION {{Place(l, pr) : pr \in Projections(body, l)} : l \in Locals(body)}

IsScalarTy(ty) == ty.k \in {"Bool", "Int", "Uint"}

\* the operands of type ty: the constant 1, or a local copied or moved whole
Operands(body, ty) ==
    (IF "Const" \in body.rvalues /\ IsScalarTy(ty) THEN {ConstScalar(1, ty)} ELSE {})
    \cup (IF "Copy" \in body.rvalues /\ IsScalarTy(ty)
          THEN {Copy(Place(l, <<>>)) : l \in LocalsOf(body, ty)} ELSE {})
    \cup (IF "Move" \in body.rvalues /\ ~IsScalarTy(ty)
          THEN {Move(Place(l, <<>>)) : l \in LocalsOf(body, ty)} ELSE {})

\* the r-values of type ty
Rvalues(body, ty) ==
    {Use(o) : o \in Operands(body, ty)}
    \cup (IF "Ref" \in body.rvalues /\ ty.k = "Ref"
          THEN {Ref(IF ty.mut THEN "Mut" ELSE "Shared", q) :
                    q \in {q \in Places(body) : PlaceTy(body, q) = ty.ty}}
          ELSE {})
    \cup (IF "BinaryOp" \in body.rvalues /\ ty.k \in {"Int", "Uint"}
          THEN {RvBinaryOp(op, Copy(Place(l, <<>>)), ConstScalar(1, ty)) :
                    op \in {"Add", "Sub"}, l \in LocalsOf(body, ty)}
          ELSE {})
    \cup (IF "BinaryOp" \in body.rvalues /\ ty.k = "Bool"
          THEN {RvBinaryOp(op, Copy(Place(l, <<>>)), ConstScalar(1, LocalTy(body, l))) :
                    op \in {"Lt", "Ne"}, l \in {l \in Locals(body) : LocalTy(body, l).k = "Uint"}}
          ELSE {})
    \cup (IF "Cast" \in body.rvalues /\ ty.k \in {"Int", "Uint"}
          THEN {Cast("IntToInt", Copy(Place(l, <<>>)), ty) :
                    l \in {l \in Locals(body) :
                             LocalTy(body, l).k \in {"Bool", "Char", "Uint"} /\ LocalTy(body, l) # ty}}
               \cup {Cast("Transmute", Copy(Place(l, <<>>)), ty) :
                       l \in {l \in Locals(body) : LocalTy(body, l).k \in {"Int", "Uint"}
                                /\ LocalTy(body, l) # ty
                                /\ bit_width(IF ty.k = "Int" THEN ty.ity ELSE ty.uty)
                                     = bit_width(IF LocalTy(body, l).k = "Int"
                                                 THEN LocalTy(body, l).ity
                                                 ELSE LocalTy(body, l).uty)}}
          ELSE {})

\* the statements a body may hold: the well-typed assignments, and two other kinds
Statements(body) ==
    UNION {{Assign(p, rv) : rv \in Rvalues(body, PlaceTy(body, p))} : p \in Places(body)}
    \cup {[k |-> "StorageLive"], [k |-> "Nop"]}

----------------------------------------------------------------------------
(* The translator as a state machine *)

Init ==
    /\ program = add_preamble
    /\ mir = NoBody
    /\ ref_to_expr = <<>>
    /\ decl = <<>>
    /\ blocks = <<>>
    /\ cur = <<>>
    /\ pos = 0
    /\ pc = "idle"
    /\ result = NoProcedure
    /\ arg = NoArg
    /\ ret = NoArg

\* the block being visited by codegen_body
CurBlock == reverse_postorder(mir)[pos]

RECURSIVE SumLen(_, _)
SumLen(bbs, i) == IF i > Len(bbs) THEN 0 ELSE Len(bbs[i].statements) + SumLen(bbs, i + 1)

\* BoogieCtx::codegen_function on an intrinsic: returns None
SkipIntrinsic(f) ==
    /\ pc = "idle"
    /\ f.intrinsic
    /\ result' = NoProcedure
    /\ UNCHANGED <<program, mir, ref_to_expr, decl, blocks, cur, pos, pc, arg, ret>>

\* a codegen_function that hands the alias table of the previous translation on
CodegenFunctionStale(f) ==
    /\ pc = "idle"
    /\ ~f.intrinsic
    /\ mir' = f
    /\ ref_to_expr' = ref_to_expr
    /\ LET d == codegen_declare_variables(f.local_decls)
       IN  /\ decl' = d.decls
           /\ pc' = IF d.panicked THEN "aborted" ELSE "body"
    /\ blocks' = <<>>
    /\ cur' = <<>>
    /\ pos' = 1
    /\ result' = NoProcedure
    /\ UNCHANGED <<program, arg, ret>>

\* BoogieCtx::codegen_function up to the call of codegen_body:
\* FunctionCtx::new and codegen_declare_variables
CodegenFunction(f) ==
    /\ pc = "idle"
    /\ ~f.intrinsic
    /\ mir' = f
    /\ ref_to_expr' = <<>>
    /\ LET d == codegen_declare_variables(f.local_decls)
       IN  /\ decl' = d.decls
           /\ pc' = IF d.panicked THEN "aborted" ELSE "body"
    /\ blocks' = <<>>
    /\ cur' = <<>>
    /\ pos' = 1
    /\ result' = NoProcedure
    /\ UNCHANGED <<program, arg, ret>>

\* codegen_block: one iteration of the map over bbd.statements
CodegenStatement(stmt) ==
    /\ pc = "body"
    /\ pos <= Len(reverse_postorder(mir))
    /\ SumLen(mir.blocks, 1) < MaxStmts
    /\ LET bb == CurBlock
           r == codegen_statement(mir, ref_to_expr, stmt)
       IN  /\ mir' = [mir EXCEPT !.blocks[bb + 1].statements = Append(@, stmt)]
           /\ IF IsPanic(r.stmt)
              THEN /\ pc' = "aborted"
                   /\ UNCHANGED <<ref_to_expr, cur>>
              ELSE /\ ref_to_expr' = r.refs
                   /\ cur' = Append(cur, IF Len(cur) = 0
                                         THEN Label(BlockName(bb), r.stmt)
                                         ELSE r.stmt)
                   /\ pc' = pc
    /\ UNCHANGED <<program, decl, blocks, pos, result, arg, ret>>

\* codegen_block: the terminator, and the block statement handed to codegen_body
CodegenTerminator ==
    /\ pc = "body"
    /\ pos <= Len(reverse_postorder(mir))
    /\ LET bb == CurBlock
           tcode == codegen_terminator(mir, ref_to_expr, mir.blocks[bb + 1].terminator)
           statements == IF Len(mir.blocks[bb + 1].statements) = 0
                         THEN <<Label(BlockName(bb), tcode)>>
                         ELSE Append(cur, tcode)
       IN  IF IsPanic(tcode)
           THEN /\ pc' = "aborted"
                /\ UNCHANGED <<blocks, cur, pos>>
           ELSE /\ blocks' = Append(blocks, block(statements))
                /\ cur' = <<>>
                /\ pos' = pos + 1
                /\ pc' = pc
    /\ UNCHANGED <<program, mir, ref_to_expr, decl, result, arg, ret>>

\* the end of codegen_body and of codegen_function: the Procedure
ReturnProcedure ==
    /\ pc = "body"
    /\ pos > Len(reverse_postorder(mir))
    /\ LET body == Block(blocks)
       IN  result' = Procedure(mir.name, <<>>, <<>>, "None", Block(Append(decl, body)))
    /\ pc' = "done"
    /\ UNCHANGED <<program, mir, ref_to_expr, decl, blocks, cur, pos, arg, ret>>

\* BoogieCtx::add_procedure
AddProcedure ==
    /\ pc = "done"
    /\ program' = add_procedure(program, result)
    /\ pc' = "added"
    /\ UNCHANGED <<mir, ref_to_expr, decl, blocks, cur, pos, result, arg, ret>>

Next ==
    \/ \E f \in Functions : SkipIntrinsic(f)
    \/ \E f \in Functions : CodegenFunction(f)
    \/ \E stmt \in Statements(mir) : CodegenStatement(stmt)
    \/ CodegenTerminator
    \/ ReturnProcedure
    \/ AddProcedure

Spec == Init /\ [][Next]_vars

----------------------------------------------------------------------------
(* The translation of several functions into one Program *)

\* the driver turning to the next function after a procedure was added
NextInstance ==
    /\ pc = "added"
    /\ Len(program.procedures) < MaxProcs
    /\ pc' = "idle"
    /\ UNCHANGED <<program, mir, ref_to_expr, decl, blocks, cur, pos, result, arg, ret>>

\* functions whose blocks hold a terminator only, one after the other
NextProgram ==
    \/ \E f \in Functions : SkipIntrinsic(f)
    \/ \E f \in Functions : CodegenFunction(f)
    \/ CodegenTerminator
    \/ ReturnProcedure
    \/ AddProcedure
    \/ NextInstance

SpecProgram == Init /\ [][NextProgram]_vars

----------------------------------------------------------------------------
(* Single functions applied to inputs drawn from bounded sets *)

\* values of the other variables while one function is applied
Standalone ==
    /\ program = add_preamble
    /\ mir = NoBody
    /\ ref_to_expr = <<>>
    /\ decl = <<>>
    /\ blocks = <<>>
    /\ cur = <<>>
    /\ pos = 0
    /\ pc = "idle"
    /\ result = NoProcedure
    /\ ret = NoArg

Apply(f, value) ==
    /\ arg.f = f
    /\ ret = NoArg
    /\ ret' = value
    /\ UNCHANGED <<program, mir, ref_to_expr, decl, blocks, cur, pos, pc, result, arg>>

\* codegen_declare_variables on the locals of a body
DeclTypes ==
    {TyUnit, PhantomData, TyBool, U32, I32, MutRef(U32), TyRef(FALSE, U32), TyArray(U32),
     TyTuple(<<U32, TyBool>>), TyChar}

InitDecl ==
    /\ Standalone
    /\ arg \in {[f |-> "codegen_declare_variables", local_decls |-> ld] :
                  ld \in UNION {[1..n -> DeclTypes] : n \in 0..MaxLocals}}

DeclareVariables ==
    Apply("codegen_declare_variables", codegen_declare_variables(arg.local_decls))

NextDecl == DeclareVariables

SpecDecl == InitDecl /\ [][NextDecl]_vars

\* the integer types, bool and char
IntegerTypes == {TyInt(t) : t \in IntTys} \cup {TyUint(t) : t \in UintTys}

\* codegen_rvalue on Rvalue::Cast(kind, copy _0, ty), _0 being the only local
InitCast ==
    /\ Standalone
    /\ arg \in {[f |-> "codegen_rvalue", kind |-> kind, local_decls |-> <<from>>, ty |-> to] :
                  kind \in {"IntToInt", "Transmute"},
                  from \in IntegerTypes \cup {TyBool, TyChar},
                  to \in IntegerTypes}

CastBody == [NoBody EXCEPT !.local_decls = arg.local_decls]

\* the pair codegen_rvalue returns, as [side, expr]
CodegenCast ==
    LET rv == codegen_rvalue(CastBody, <<>>, Cast(arg.kind, Copy(Place(0, <<>>)), arg.ty))
    IN  Apply("codegen_rvalue", [side |-> rv[1], expr |-> rv[2]])

NextCast == CodegenCast

SpecCast == InitCast /\ [][NextCast]_vars

\* codegen_switch_int on a switch over copy _0, _0 being the only local
SwitchBlocks == 0..2
SwitchValues == 0..2

InitSwitch ==
    /\ Standalone
    /\ arg \in {[f |-> "codegen_switch_int", local_decls |-> <<ty>>, arms |-> arms,
                 otherwise |-> otherwise] :
                  ty \in IntegerTypes \cup {TyBool},
                  arms \in {<<<<v, t>>>> : v \in SwitchValues, t \in SwitchBlocks}
                           \cup {<<<<0, t>>, <<1, t>>>> : t \in SwitchBlocks},
                  otherwise \in SwitchBlocks}
    /\ arg.local_decls[1] = TyBool => \A i \in 1..Len(arg.arms) : arg.arms[i][1] \in {0, 1}

SwitchBody == [NoBody EXCEPT !.local_decls = arg.local_decls]

CodegenSwitchInt ==
    Apply("codegen_switch_int",
          codegen_switch_int(SwitchBody, <<>>, Copy(Place(0, <<>>)), arg.arms, arg.otherwise))

NextSwitch == CodegenSwitchInt

SpecSwitch == InitSwitch /\ [][NextSwitch]_vars

----------------------------------------------------------------------------
(* Source and output of the translation under way, side by side *)

Min(a, b) == IF a < b THEN a ELSE b

\* the visitation order of the body under translation
Rpo == IF mir.blocks = <<>> THEN <<>> ELSE reverse_postorder(mir)

Unlabel(stmt) == IF stmt.s = "Label" THEN stmt.statement ELSE stmt

\* the source statements of the k-th visited block
SrcOf(k) == mir.blocks[Rpo[k] + 1].statements

\* the terminator of the k-th visited block
TermOf(k) == mir.blocks[Rpo[k] + 1].terminator

\* the statements lowered from SrcOf(k), without the block's label
OutOf(k) ==
    IF k <= Len(blocks)
    THEN IF Len(SrcOf(k)) = 0 \/ blocks[k].s # "Block" THEN <<>>
         ELSE [j \in 1..Min(Len(SrcOf(k)), Len(blocks[k].statements)) |->
                  Unlabel(blocks[k].statements[j])]
    ELSE IF k = pos THEN [j \in 1..Len(cur) |-> Unlabel(cur[j])]
    ELSE <<>>

\* (source statement, lowered statement) in visitation order
RECURSIVE TraceFrom(_)
TraceFrom(k) ==
    IF k > Min(pos, Len(Rpo)) THEN <<>>
    ELSE [j \in 1..Min(Len(SrcOf(k)), Len(OutOf(k))) |->
             [src |-> SrcOf(k)[j], out |-> OutOf(k)[j]]] \o TraceFrom(k + 1)

Trace == TraceFrom(1)

\* the source statements read so far, in visitation order
RECURSIVE SourceFrom(_)
SourceFrom(k) ==
    IF k > Min(pos, Len(Rpo)) THEN <<>> ELSE SrcOf(k) \o SourceFrom(k + 1)

Source == SourceFrom(1)

----------------------------------------------------------------------------
(* Properties *)

\* the alias table after the first n statements read
RECURSIVE RefsAfter(_)
RefsAfter(n) ==
    IF n = 0 THEN <<>> ELSE codegen_statement(mir, RefsAfter(n - 1), Source[n]).refs

\* the number of statements read in the blocks visited before the k-th
RECURSIVE Before(_)
Before(k) == IF k <= 1 THEN 0 ELSE Before(k - 1) + Len(SrcOf(k - 1))

\* the lowering of the j-th statement of the k-th visited block, and of its terminator
Lowered(k, j) == codegen_statement(mir, RefsAfter(Before(k) + j - 1), SrcOf(k)[j]).stmt
LoweredTerm(k) == codegen_terminator(mir, RefsAfter(Before(k) + Len(SrcOf(k))), TermOf(k))

\* C1: every basic block's result is the canonical form of its lowered statements:
\* a block without source statements is its one labelled terminator itself, with no
\* Block around it; a block with n >= 1 source statements is one Block holding the n
\* lowered statements in source order, the first under the block's label, followed
\* by the lowered terminator.
C1_BlockCanonical ==
    \A k \in 1..Len(blocks) :
        LET n == Len(SrcOf(k))
            label == BlockName(Rpo[k])
        IN  IF n = 0
            THEN blocks[k] = Label(label, LoweredTerm(k))
            ELSE blocks[k] =
                   Block([j \in 1..(n + 1) |->
                            IF j = 1 THEN Label(label, Lowered(k, 1))
                            ELSE IF j <= n THEN Lowered(k, j)
                            ELSE LoweredTerm(k)])

\* a block returned unwrapped and a block of N > 1 statements, in one body
C1_Witness ==
    \E k1, k2 \in 1..Len(blocks) :
        /\ blocks[k1].s = "Label"
        /\ blocks[k2].s = "Block" /\ Len(blocks[k2].statements) = 3
        /\ blocks[k2].statements[1].statement.s = "Null"
        /\ blocks[k2].statements[2].s = "Assignment"

\* no Block in the statement holds exactly one statement
RECURSIVE NoSingletonBlock(_)
NoSingletonBlock(stmt) ==
    CASE stmt.s = "Block" ->
            /\ Len(stmt.statements) # 1
            /\ \A i \in 1..Len(stmt.statements) : NoSingletonBlock(stmt.statements[i])
      [] stmt.s = "Label" -> NoSingletonBlock(stmt.statement)
      [] stmt.s = "If" -> NoSingletonBlock(stmt.body) /\ NoSingletonBlock(stmt.else_body)
      [] OTHER -> TRUE

\* C2: in every procedure produced by codegen_function, no Block anywhere in the
\* body holds exactly one statement.
C2_NoSingletonBlock ==
    result # NoProcedure => NoSingletonBlock(result.body)

\* a procedure for a body of one basic block: the Block built by codegen_body holds
\* that one block alone
C2_Witness ==
    /\ result # NoProcedure
    /\ LET body == result.body.statements[Len(result.body.statements)]
       IN  body.s = "Block" /\ Len(body.statements) = 1

\* the name is that of a local of reference type
IsReferenceName(name) ==
    \E l \in Locals(mir) : LocalTy(mir, l).k = "Ref" /\ name = <<LocalName(l)>>

\* C3: for `r := &x` followed later by `*r := v` (r not assigned in between): the
\* first emits only the no-op and records the alias r -> lower(x); the second emits
\* the one Assignment whose target is the rendered lower(x) and whose value is
\* lower(v); and no variable of reference type is declared or assigned in the output.
C3_RefThenDerefAssign ==
    \A i, j \in 1..Len(Trace) :
        LET a == Trace[i].src
            b == Trace[j].src
            r == a.place
            x == codegen_place(mir, RefsAfter(i - 1), a.rvalue.place)
        IN  (/\ i < j
             /\ a.rvalue.r = "Ref" /\ r.projection = <<>>
             /\ b.place = Place(r.local, <<Deref>>) /\ b.rvalue.r # "Ref"
             /\ \A m \in (i + 1)..(j - 1) : Trace[m].src.place # r)
            => /\ Trace[i].out = Null
               /\ (\A m \in (i + 1)..Len(Trace) : Trace[m].src.place # r)
                     => r \in DOMAIN ref_to_expr /\ ref_to_expr[r] = x
               /\ Trace[j].out
                     = Assignment(to_string(x), codegen_rvalue(mir, RefsAfter(j - 1), b.rvalue)[2])
               /\ \A d \in 1..Len(decl) : ~IsReferenceName(<<decl[d].name>>)
               /\ \A m \in 1..Len(Trace) :
                     Trace[m].out.s = "Assignment" => ~IsReferenceName(Trace[m].out.target)

\* a procedure returned for a body holding `_3 := &mut *_2` and then `*_3 := 1`,
\* _2 being a mutable reference: the output assigns _2, which is not declared
C3_Witness ==
    /\ result # NoProcedure
    /\ Len(Trace) = 2
    /\ Trace[1].src = Assign(Place(3, <<>>), Ref("Mut", Place(2, <<Deref>>)))
    /\ Trace[2].src = Assign(Place(3, <<Deref>>), Use(ConstScalar(1, U32)))
    /\ Trace[2].out = Assignment(<<"_2">>, ExprLiteral(LiteralBv(32, 1)))
    /\ \A d \in 1..Len(decl) : decl[d].name # "_2"

\* the same statements when the referent x is a local that is no reference
C3_ValueReferent ==
    \A i, j \in 1..Len(Trace) :
        LET a == Trace[i].src
            b == Trace[j].src
            r == a.place
            x == a.rvalue.place
        IN  (/\ i < j
             /\ a.rvalue.r = "Ref" /\ r.projection = <<>>
             /\ x.projection = <<>> /\ LocalTy(mir, x.local).k # "Ref"
             /\ b.place = Place(r.local, <<Deref>>) /\ b.rvalue.r # "Ref"
             /\ \A m \in (i + 1)..(j - 1) : Trace[m].src.place # r)
            => /\ Trace[i].out = Null
               /\ Trace[j].out.s = "Assignment"
               /\ Trace[j].out.target = <<LocalName(x.local)>>
               /\ ~IsReferenceName(Trace[j].out.target)

\* the constructs C5 names
SupportedBinOps == {"Eq", "Add", "AddUnchecked", "Lt", "Ge", "BitAnd", "BitOr", "Shl", "Shr"}
UnsupportedBinOp(stmt) ==
    /\ stmt.k = "Assign"
    /\ stmt.rvalue.r \in {"BinaryOp", "CheckedBinaryOp"}
    /\ stmt.rvalue.binop \notin SupportedBinOps
UnsupportedCast(stmt) ==
    /\ stmt.k = "Assign"
    /\ stmt.rvalue.r = "Cast"
    /\ ~(/\ stmt.rvalue.kind = "IntToInt"
         /\ operand_ty(mir, stmt.rvalue.operand).k \in {"Int", "Uint"}
         /\ stmt.rvalue.ty.k \in {"Int", "Uint"})
UnsupportedTerminator(term) ==
    \/ term.t = "SwitchInt" /\ Len(term.arms) + 1 >= 3
    \/ /\ term.t = "Call"
       /\ ~(operand_ty(mir, term.func).k = "FnDef"
            /\ operand_ty(mir, term.func).name \in KaniIntrinsics)

\* C5: a visited switch with three or more targets, binary operator outside the
\* supported set, cast that is not integer-to-integer between bit-vector types, or
\* call of a callee that is no intrinsic aborts the translation: no block ending in
\* such a terminator is ever completed, a body holding such a statement is aborted,
\* no Procedure is returned for it, and the Program is still the preamble.
C5_UnsupportedAborts ==
    /\ \A k \in 1..Len(blocks) : ~UnsupportedTerminator(TermOf(k))
    /\ (\E i \in 1..Len(Source) : UnsupportedBinOp(Source[i]) \/ UnsupportedCast(Source[i]))
          => pc = "aborted"
    /\ pc = "aborted" => result = NoProcedure /\ program = add_preamble
    /\ result # NoProcedure =>
          /\ \A k \in 1..Len(Rpo) : ~UnsupportedTerminator(TermOf(k))
          /\ \A i \in 1..Len(Source) : ~UnsupportedBinOp(Source[i]) /\ ~UnsupportedCast(Source[i])
    /\ pc # "added" => program = add_preamble

\* a translation aborted at the terminator of a block: a call of a non-intrinsic,
\* after a statement of the block was lowered
C5_Witness ==
    /\ pc = "aborted"
    /\ mir.name = "call"
    /\ Len(cur) = 1 /\ Len(SrcOf(pos)) = 1
    /\ UnsupportedTerminator(TermOf(pos))

\* C6: an assignment that neither takes a reference nor writes through a single
\* dereference emits the Assignment of the lowered r-value to a target that denotes
\* the full assigned place: not the base local alone when the place has projections,
\* and different targets for different projections of one local.
C6_AssignTargetsFullPlace ==
    \A i, j \in 1..Len(Trace) :
        LET a == Trace[i].src
            b == Trace[j].src
        IN  (a.rvalue.r # "Ref" /\ a.place.projection # <<Deref>>) =>
               /\ Trace[i].out.s = "Assignment"
               /\ Trace[i].out.value = codegen_rvalue(mir, RefsAfter(i - 1), a.rvalue)[2]
               /\ a.place.projection # <<>>
                     => Trace[i].out.target # <<LocalName(a.place.local)>>
               /\ (/\ b.rvalue.r # "Ref" /\ b.place.projection # <<Deref>>
                   /\ a.place.local = b.place.local /\ a.place # b.place)
                     => Trace[i].out.target # Trace[j].out.target

\* `_1[_2] := 1` and `_1[_3] := 1` lowered to two assignments of the target _1
C6_Witness ==
    /\ result # NoProcedure
    /\ Len(Trace) = 2
    /\ Trace[1].src = Assign(Place(1, <<IndexProj(2)>>), Use(ConstScalar(1, U32)))
    /\ Trace[2].src = Assign(Place(1, <<IndexProj(3)>>), Use(ConstScalar(1, U32)))
    /\ Trace[1].out.target = <<"_1">>
    /\ Trace[2].out.target = <<"_1">>

\* the statement read by the step, when the step reads one
ReadsStatement == pc = "body" /\ mir'.blocks # mir.blocks
StatementRead ==
    LET read == mir'.blocks[CurBlock + 1].statements
    IN  read[Len(read)]

\* C7: once an alias is recorded for a place, no later step removes it or replaces it
\* with a different expression.
C7_AliasNeverReplaced ==
    [][\A p \in DOMAIN ref_to_expr :
          p \in DOMAIN ref_to_expr' /\ ref_to_expr'[p] = ref_to_expr[p]]_vars

\* C7, amended: no step removes an entry of the alias table; the table changes only
\* when a reference-taking assignment is lowered, which binds exactly the assigned
\* place to the lowering of the new referent, replacing what was recorded before.
C7_AliasKeptOrRebound ==
    [][/\ \A p \in DOMAIN ref_to_expr : p \in DOMAIN ref_to_expr'
       /\ IF ReadsStatement /\ pc' # "aborted" /\ StatementRead.rvalue.r = "Ref"
          THEN /\ StatementRead.place \in DOMAIN ref_to_expr'
               /\ ref_to_expr'[StatementRead.place]
                     = codegen_place(mir, ref_to_expr, StatementRead.rvalue.place)
               /\ \A p \in DOMAIN ref_to_expr \ {StatementRead.place} :
                     ref_to_expr'[p] = ref_to_expr[p]
               /\ DOMAIN ref_to_expr' = DOMAIN ref_to_expr \cup {StatementRead.place}
          ELSE ref_to_expr' = ref_to_expr]_vars

\* `_2 := &mut _0` then `_2 := &mut _1`: the alias of _2 is now _1
C7_Witness ==
    /\ Len(Trace) = 2
    /\ Trace[1].src = Assign(Place(2, <<>>), Ref("Mut", Place(0, <<>>)))
    /\ Trace[2].src = Assign(Place(2, <<>>), Ref("Mut", Place(1, <<>>)))
    /\ ref_to_expr[Place(2, <<>>)] = Symbol("_1")

\* C8: an assignment through a single dereference `*r := v`, read when no alias is
\* recorded for r, aborts the translation: nothing is emitted for it and no Procedure
\* is returned.
C8_DerefWithoutAliasAborts ==
    \A i \in 1..Len(Source) :
        (/\ Source[i].k = "Assign"
         /\ Source[i].place.projection = <<Deref>>
         /\ Place(Source[i].place.local, <<>>) \notin DOMAIN RefsAfter(i - 1))
        => /\ pc = "aborted"
           /\ i = Len(Source)
           /\ Len(Trace) = Len(Source) - 1
           /\ result = NoProcedure

\* C8, amended: the same for every `*r := v` whose v is not a reference-taking
\* r-value (a reference-taking `*r := &x` records an alias for the place *r and
\* emits the no-op, whether or not r has an alias).
C8_DerefValueWithoutAliasAborts ==
    \A i \in 1..Len(Source) :
        (/\ Source[i].k = "Assign"
         /\ Source[i].rvalue.r # "Ref"
         /\ Source[i].place.projection = <<Deref>>
         /\ Place(Source[i].place.local, <<>>) \notin DOMAIN RefsAfter(i - 1))
        => /\ pc = "aborted"
           /\ i = Len(Source)
           /\ Len(Trace) = Len(Source) - 1
           /\ result = NoProcedure

\* `*_2 := 1` read after a statement that records no alias for _2
C8_Witness ==
    /\ pc = "aborted"
    /\ Len(Source) = 2
    /\ Len(Trace) = 1
    /\ Source[2] = Assign(Place(2, <<Deref>>), Use(ConstScalar(1, U32)))
    /\ Place(2, <<>>) \notin DOMAIN ref_to_expr

\* C4: for a switch with exactly two targets whose discriminant is a boolean or an
\* integer, signed or unsigned, codegen_switch_int yields If(Eq(lowered discriminant,
\* literal of the arm's value), Goto(label of the arm's block), Goto(label of the
\* otherwise block)); the literal of a boolean arm value 0 is Bool(false).
C4_TwoTargetSwitchIsIf ==
    (/\ ret # NoArg
     /\ arg.f = "codegen_switch_int"
     /\ Len(arg.arms) = 1
     /\ arg.local_decls[1].k \in {"Bool", "Int", "Uint"})
    => LET value == arg.arms[1][1]
           target == arg.arms[1][2]
       IN  /\ ret.s = "If"
           /\ ret.condition.e = "BinaryOp"
           /\ ret.condition.op = "Eq"
           /\ ret.condition.left = Symbol("_0")
           /\ ret.condition.right.e = "Literal"
           /\ IF arg.local_decls[1] = TyBool
              THEN ret.condition.right.lit = LiteralBool(value # 0)
              ELSE ret.condition.right.lit.l = "Bv" /\ ret.condition.right.lit.value = value
           /\ ret.body = Goto(BlockName(target))
           /\ ret.else_body = Goto(BlockName(arg.otherwise))

\* the switch of a signed discriminant, {0 -> bb1, otherwise -> bb2}, lowered to no
\* statement at all
C4_Witness ==
    /\ arg.f = "codegen_switch_int"
    /\ arg.local_decls = <<I32>>
    /\ arg.arms = <<<<0, 1>>>>
    /\ arg.otherwise = 2
    /\ IsPanic(ret)

\* the same switches when the discriminant is a boolean or an unsigned integer
C4_UnsignedOrBool ==
    (/\ ret # NoArg
     /\ arg.f = "codegen_switch_int"
     /\ Len(arg.arms) = 1
     /\ arg.local_decls[1].k \in {"Bool", "Uint"})
    => LET value == arg.arms[1][1]
           target == arg.arms[1][2]
           literal == IF arg.local_decls[1] = TyBool
                      THEN LiteralBool(value # 0) ELSE LiteralBv(128, value)
       IN  ret = If(ExprBinaryOp("Eq", Symbol("_0"), ExprLiteral(literal)),
                    Goto(BlockName(target)), Goto(BlockName(arg.otherwise)))

\* the locals codegen_declare_variables declares: neither zero-size nor a mutable
\* reference
DeclaredLocals(ldecls) ==
    {lc \in 0..(Len(ldecls) - 1) :
        ~is_zst(ldecls[lc + 1]) /\ ~(ldecls[lc + 1].k = "Ref" /\ ldecls[lc + 1].mut)}

\* the i-th of a set of locals in index order
NthLocal(locals, i) == CHOOSE lc \in locals : Cardinality({m \in locals : m < lc}) = i - 1

\* C9: codegen_declare_variables, when it returns, returns exactly one Decl, named
\* after the local and in local-index order, for every local whose type is neither
\* zero-size nor a mutable reference, and none for any other local; it returns
\* unless the type of such a local has no lowering.
C9_DeclPerLocal ==
    (ret # NoArg /\ arg.f = "codegen_declare_variables")
    => LET declared == DeclaredLocals(arg.local_decls)
       IN  IF ret.panicked
           THEN \E lc \in declared : IsPanic(codegen_type(arg.local_decls[lc + 1]))
           ELSE /\ Len(ret.decls) = Cardinality(declared)
                /\ \A i \in 1..Len(ret.decls) :
                      /\ ret.decls[i].s = "Decl"
                      /\ ret.decls[i].name = LocalName(NthLocal(declared, i))

\* a zero-size local and a mutable reference skipped, a shared reference and an
\* integer declared, in index order
C9_Witness ==
    /\ arg.f = "codegen_declare_variables"
    /\ arg.local_decls = <<TyUnit, MutRef(U32), TyRef(FALSE, U32)>>
    /\ ret # NoArg
    /\ ~ret.panicked
    /\ ret.decls = <<Decl("_2", Bv(32))>>

\* the width of an integer type, the pointer-sized ones taken as 64 bits
WidthOf(ty) ==
    LET name == IF ty.k = "Int" THEN ty.ity ELSE ty.uty
    IN  CASE name \in {"I8", "U8"} -> 8
          [] name \in {"I16", "U16"} -> 16
          [] name \in {"I32", "U32"} -> 32
          [] name \in {"I64", "U64", "Isize", "Usize"} -> 64
          [] name \in {"I128", "U128"} -> 128

\* C10: an integer-to-integer cast from width f to width t, f > t, is the extraction
\* of the low t bits of the lowered operand; f < t, the extension of the lowered
\* operand by t - f bits, sign-extension for a signed source type and zero-extension
\* for an unsigned one.
C10_CastByWidth ==
    (/\ ret # NoArg
     /\ arg.f = "codegen_rvalue"
     /\ arg.kind = "IntToInt"
     /\ arg.local_decls[1].k \in {"Int", "Uint"})
    => LET f == WidthOf(arg.local_decls[1])
           t == WidthOf(arg.ty)
           o == Symbol("_0")
       IN  /\ f > t => ret.expr = extract(o, t, 0)
           /\ (f < t /\ arg.local_decls[1].k = "Int") => ret.expr = sign_extend(o, t - f)
           /\ (f < t /\ arg.local_decls[1].k = "Uint") => ret.expr = zero_extend(o, t - f)
           /\ (arg.local_decls[1] = TyInt("I32") /\ t = 8) => ret.expr = extract(o, 8, 0)
           /\ (arg.local_decls[1] = TyUint("U8") /\ t = 32) => ret.expr = zero_extend(o, 24)
           /\ (arg.local_decls[1] = TyInt("I8") /\ t = 32) => ret.expr = sign_extend(o, 24)

\* an i8 cast to u32: the sign-extension of _0 by 24 bits
C10_Witness ==
    /\ arg.f = "codegen_rvalue"
    /\ arg.kind = "IntToInt"
    /\ arg.local_decls = <<TyInt("I8")>>
    /\ arg.ty = TyUint("U32")
    /\ ret # NoArg
    /\ ret.side = NoneStmt
    /\ ret.expr = sign_extend(Symbol("_0"), 24)

\* C11: an integer-to-integer cast between types of equal lowered width (signed to
\* unsigned of one width, isize or usize to a 64-bit type, and back) is exactly the
\* lowered operand, with no side statement and no node around it.
C11_SameWidthCastIsOperand ==
    (/\ ret # NoArg
     /\ arg.f = "codegen_rvalue"
     /\ arg.kind = "IntToInt"
     /\ arg.local_decls[1].k \in {"Int", "Uint"}
     /\ WidthOf(arg.local_decls[1]) = WidthOf(arg.ty))
    => ret.side = NoneStmt /\ ret.expr = Symbol("_0")

\* an isize cast to u64: the operand _0 itself
C11_Witness ==
    /\ arg.f = "codegen_rvalue"
    /\ arg.kind = "IntToInt"
    /\ arg.local_decls = <<TyInt("Isize")>>
    /\ arg.ty = TyUint("U64")
    /\ ret # NoArg
    /\ ret.expr = Symbol("_0")

\* C12: after BoogieCtx::new the Program holds the preamble, eight builtin functions
\* and the unbounded-array datatype, and no procedure; every step leaves the Program
\* as it is, or is add_procedure and appends the procedure handed to it after the
\* procedures already there, functions and datatypes left alone.
C12_ProgramGrowsInOrder ==
    /\ (/\ Len(program.functions) = 8
        /\ Len(program.datatypes) = 1
        /\ program.datatypes[1].name = "$UnboundedArray"
        /\ program.procedures = <<>>)
    /\ [][\/ program' = program
          \/ /\ pc = "done"
             /\ program'.procedures = Append(program.procedures, result)
             /\ program'.functions = program.functions
             /\ program'.datatypes = program.datatypes]_vars

\* two procedures added, alias1 and then branch: the Program holds them in that order
C12_Witness ==
    /\ pc = "added"
    /\ Len(program.procedures) = 2
    /\ program.procedures[1].name = "alias1"
    /\ program.procedures[2].name = "branch"
    /\ program.functions = add_preamble.functions


\* the solver primitive named by a builtin declaration's attribute
PrimitiveOf(function) == function.attributes[1][2]

\* C13: in the preamble a builtin declaration has two parameters when its solver
\* primitive is binary and exactly one parameter when it is the unary bvnot.
C13_ParametersByArity ==
    \A i \in 1..Len(program.functions) :
        Len(program.functions[i].parameters) =
            IF PrimitiveOf(program.functions[i]) = "bvnot" THEN 1 ELSE 2

\* the declaration of bvnot in a Program a procedure was added to: parameters lhs and rhs
C13_Witness ==
    /\ pc = "added"
    /\ \E i \in 1..Len(program.functions) :
          /\ PrimitiveOf(program.functions[i]) = "bvnot"
          /\ program.functions[i].parameters =
                <<Parameter("lhs", TypeParameter("T")), Parameter("rhs", TypeParameter("T"))>>


\* the builtin catalog: declared name and solver primitive of each entry
BuiltinCatalog ==
    {<<"$BvUnsignedLessThan", "bvult">>, <<"$BvSignedLessThan", "bvslt">>,
     <<"$BvAdd", "bvadd">>, <<"$BvOr", "bvor">>, <<"$BvAnd", "bvand">>,
     <<"$BvShl", "bvshl">>, <<"$BvShr", "bvlshr">>, <<"BvNot", "bvnot">>}

\* C14: the Program holds eight builtin declarations, one for every catalog entry and
\* no two for the same entry; each is generic over T, has no body, carries the one
\* attribute naming its own solver primitive, and returns Bool exactly when it is one
\* of the two less-than predicates and T otherwise.
C14_PreambleDeclaresCatalog ==
    /\ Len(program.functions) = 8
    /\ \A e \in BuiltinCatalog :
          \E i \in 1..Len(program.functions) :
              /\ program.functions[i].name = <<e[1], "<", "T", ">">>
              /\ program.functions[i].attributes = <<<<":bvbuiltin", e[2]>>>>
    /\ \A i, j \in 1..Len(program.functions) :
          i # j => /\ program.functions[i].name # program.functions[j].name
                   /\ PrimitiveOf(program.functions[i]) # PrimitiveOf(program.functions[j])
    /\ \A i \in 1..Len(program.functions) :
          /\ program.functions[i].body = "None"
          /\ program.functions[i].return_type =
                IF PrimitiveOf(program.functions[i]) \in {"bvult", "bvslt"}
                THEN BoogieBool ELSE TypeParameter("T")

\* a Program with a procedure added: the preamble is still the catalog, bvslt declared
\* as a predicate and bvadd as a function to T
C14_Witness ==
    /\ pc = "added"
    /\ Len(program.procedures) = 1
    /\ \E i, j \in 1..Len(program.functions) :
          /\ PrimitiveOf(program.functions[i]) = "bvslt"
          /\ program.functions[i].return_type = BoogieBool
          /\ PrimitiveOf(program.functions[j]) = "bvadd"
          /\ program.functions[j].return_type = TypeParameter("T")


\* the blocks reachable from bb0: the least set holding bb0 and closed under successors
RECURSIVE ReachFrom(_, _)
ReachFrom(body, seen) ==
    LET more == UNION {{successors(body.blocks[b + 1].terminator)[i] :
                          i \in 1..Len(successors(body.blocks[b + 1].terminator))} : b \in seen}
    IN  IF more \subseteq seen THEN seen ELSE ReachFrom(body, seen \cup more)

Reachable(body) == ReachFrom(body, {0})

\* the order in which a depth-first search from bb0 finishes the blocks, reversed
VisitOrder(body) ==
    LET post == postorder_from(body.blocks, 0, [visited |-> {}, post |-> <<>>]).post
    IN  [k \in 1..Len(post) |-> post[Len(post) + 1 - k]]

\* the statements of the Block built by codegen_body
BodyOf(procedure) == procedure.body.statements[Len(procedure.body.statements)].statements

\* C15: the body of a produced procedure holds one entry per basic block reachable
\* from the entry block and none for any other, in reverse postorder with the entry
\* block first; the entry of a block is its lowered statements in source order and
\* then its lowered terminator, with exactly one Label, named after the block, on the
\* first lowered statement, or on the terminator when the block has no statements.
C15_BlocksInReversePostorder ==
    result # NoProcedure =>
        LET out == BodyOf(result)
            ord == VisitOrder(mir)
        IN  /\ Len(out) = Cardinality(Reachable(mir))
            /\ Len(ord) = Len(out)
            /\ {ord[k] : k \in 1..Len(ord)} = Reachable(mir)
            /\ ord[1] = 0
            /\ \A k \in 1..Len(out) :
                  LET src == mir.blocks[ord[k] + 1].statements
                      n == Len(src)
                      label == BlockName(ord[k])
                  IN  IF n = 0
                      THEN /\ out[k] = Label(label, LoweredTerm(k))
                           /\ LoweredTerm(k).s # "Label"
                      ELSE /\ out[k].s = "Block"
                           /\ Len(out[k].statements) = n + 1
                           /\ out[k].statements[1] = Label(label, Lowered(k, 1))
                           /\ \A j \in 2..n : out[k].statements[j] = Lowered(k, j)
                           /\ out[k].statements[n + 1] = LoweredTerm(k)
                           /\ Lowered(k, 1).s # "Label"
                           /\ \A j \in 2..(n + 1) : out[k].statements[j].s # "Label"

\* a procedure for bb0: goto bb2, bb1 unreachable, bb2: return, with a statement read
\* in bb2: bb0's entry is its labelled goto, bb2's entry a Block, and bb1 has none
C15_Witness ==
    /\ result # NoProcedure
    /\ mir.name = "alias2"
    /\ Len(BodyOf(result)) = 2
    /\ BodyOf(result)[1] = Label(BlockName(0), Goto(BlockName(2)))
    /\ BodyOf(result)[2].s = "Block"
    /\ BodyOf(result)[2].statements[1].s = "Label"
    /\ BodyOf(result)[2].statements[1].label = BlockName(2)


----------------------------------------------------------------------------
(* Type, binary-operation and constant lowering applied on their own *)

\* kani::array::Array<T>, with its payload pointer and its PhantomData marker
KaniArray(t) ==
    TyAdt("kani::array::Array",
          <<[name |-> "ptr", ty |-> TyRawPtr(t)], [name |-> "_p", ty |-> PhantomData]>>,
          <<t>>)

\* the types codegen_type is applied to: scalars, and one constructor around them
ElemTypes == {TyBool, TyChar, U8, I32, Usize, TyUnit, MutRef(U32), TyRef(FALSE, U32)}

TypeInputs ==
    IntegerTypes
    \cup ElemTypes
    \cup {PhantomData, TyRawPtr(U32), TyFnDef("callee")}
    \cup {TyArray(t) : t \in ElemTypes}
    \cup {TyRef(m, t) : m \in BOOLEAN, t \in ElemTypes}
    \cup {TyTuple(<<t, TyBool>>) : t \in ElemTypes}
    \cup {KaniArray(t) : t \in ElemTypes}
    \cup {TyAdt("kani::array::Array", <<[name |-> "_p", ty |-> PhantomData]>>, <<>>),
          TyAdt("kani::array::Array", <<[name |-> "ptr", ty |-> TyRawPtr(U8)]>>, <<U8>>),
          TyAdt("kani::array::Array",
                <<[name |-> "u", ty |-> TyUnit], [name |-> "_p", ty |-> PhantomData]>>, <<U8>>),
          TyAdt("kani::array::Array", <<[name |-> "u", ty |-> TyUnit]>>, <<U8>>),
          TyAdt("core::option::Option", <<[name |-> "0", ty |-> U8]>>, <<U8>>)}

\* the operand types of a binary operation: _0 is the left operand, the right one is
\* _1 or a constant
BinOpTypes == {U8, U32, I32, TyInt("Isize"), TyBool, TyChar}

\* Rvalue::BinaryOp and Rvalue::CheckedBinaryOp (the latter of Add and Sub only)
BinOpInput(r, binop, lt, rt, const) ==
    [f |-> "codegen_rvalue", local_decls |-> <<lt, rt>>,
     rvalue |-> [r |-> r, binop |-> binop, lhs |-> Copy(Place(0, <<>>)),
                 rhs |-> IF const THEN ConstScalar(1, rt) ELSE Copy(Place(1, <<>>))]]

BinOpInputs ==
    {BinOpInput("BinaryOp", binop, lt, rt, const) :
        binop \in {"Eq", "Lt", "Ge", "Add", "AddUnchecked", "Sub", "BitAnd"},
        lt \in BinOpTypes, rt \in BinOpTypes, const \in BOOLEAN}
    \cup
    {BinOpInput("CheckedBinaryOp", binop, lt, rt, const) :
        binop \in {"Add", "Sub"},
        lt \in BinOpTypes, rt \in BinOpTypes, const \in BOOLEAN}

\* the constants codegen_constant is applied to: integer scalars of bool, char and
\* integer type (among them -1 at the signed types), pointer scalars, zero-sized and slice values, and constants that
\* are not values
ConstInputs ==
    {[f |-> "codegen_constant", c |-> c] : c \in
        {ConstScalar(v, ty) : v \in 0..2, ty \in IntegerTypes \cup {TyChar}}
        \cup {ConstScalar(v, TyBool) : v \in 0..1}
        \cup {ConstScalar(-1, TyInt(t)) : t \in IntTys}
        \cup {Constant("Val", "Scalar", "Ptr", 0, ty) : ty \in {TyRawPtr(U32), TyRef(FALSE, U32)}}
        \cup {Constant("Val", "ZeroSized", "None", 0, ty) : ty \in {TyUnit, TyFnDef("callee")}}
        \cup {Constant("Val", "Slice", "None", 0, TyRef(FALSE, TyArray(U8)))}
        \cup {Constant(ck, "None", "None", 0, ty) :
                 ck \in {"Ty", "Unevaluated"}, ty \in {TyBool, U32, I32}}}

\* struct Inner { x: u32, y: u32 } and struct Outer { a: Inner, b: u32 }
Inner == TyAdt("Inner", <<[name |-> "x", ty |-> U32], [name |-> "y", ty |-> U32]>>, <<>>)
Outer == TyAdt("Outer", <<[name |-> "a", ty |-> Inner], [name |-> "b", ty |-> U32]>>, <<>>)

\* _0: Outer, _1: (Inner, u32), _2: &Outer, _3: [u32; N], _4: usize, _5: &mut u32, _6: u32
PlaceLocals == <<Outer, TyTuple(<<Inner, U32>>), TyRef(FALSE, Outer), TyArray(U32), Usize,
                 MutRef(U32), U32>>

\* the places codegen_place is applied to, each well typed in PlaceLocals, with an
\* alias table that is empty or holds what `_2 = &_0; _5 = &mut _6` recorded
PlaceInputs ==
    {[f |-> "codegen_place", local_decls |-> PlaceLocals, refs |-> refs, place |-> place] :
        refs \in {<<>>, [q \in {Place(2, <<>>), Place(5, <<>>)} |->
                           IF q.local = 2 THEN Symbol("_0") ELSE Symbol("_6")]},
        place \in
          {Place(l, <<>>) : l \in 0..6}
          \cup {Place(0, <<FieldProj(0, Inner)>>), Place(0, <<FieldProj(1, U32)>>),
                Place(0, <<FieldProj(0, Inner), FieldProj(0, U32)>>),
                Place(0, <<FieldProj(0, Inner), FieldProj(1, U32)>>),
                Place(1, <<FieldProj(0, Inner)>>), Place(1, <<FieldProj(1, U32)>>),
                Place(1, <<FieldProj(0, Inner), FieldProj(0, U32)>>),
                Place(1, <<FieldProj(0, Inner), FieldProj(1, U32)>>),
                Place(2, <<Deref>>),
                Place(2, <<Deref, FieldProj(1, U32)>>),
                Place(2, <<Deref, FieldProj(0, Inner), FieldProj(1, U32)>>),
                Place(3, <<IndexProj(4)>>),
                Place(5, <<Deref>>)}}

InitLower ==
    /\ Standalone
    /\ arg \in {[f |-> "codegen_type", ty |-> ty] : ty \in TypeInputs}
              \cup BinOpInputs \cup ConstInputs \cup PlaceInputs

CodegenType == Apply("codegen_type", [typ |-> codegen_type(arg.ty)])

\* the body whose locals are the operands' locals
BinOpBody == [NoBody EXCEPT !.local_decls = arg.local_decls]

\* the pair codegen_rvalue returns, as [side, expr]
CodegenBinaryOp ==
    LET rv == codegen_rvalue(BinOpBody, <<>>, arg.rvalue)
    IN  Apply("codegen_rvalue", [side |-> rv[1], expr |-> rv[2]])

CodegenConstant == Apply("codegen_constant", [expr |-> codegen_constant(arg.c)])

CodegenPlace ==
    Apply("codegen_place",
          [expr |-> codegen_place([NoBody EXCEPT !.local_decls = arg.local_decls],
                                  arg.refs, arg.place)])

NextLower ==
    \/ CodegenType
    \/ CodegenBinaryOp
    \/ CodegenConstant
    \/ CodegenPlace

SpecLower == InitLower /\ [][NextLower]_vars

\* the ADT is the dynamic-array abstraction in its expected shape: exactly one
\* zero-size field, that field the PhantomData marker, and exactly one type argument
IsUnboundedArray(ty) ==
    /\ ty.k = "Adt"
    /\ ty.name = "kani::array::Array"
    /\ Cardinality({i \in 1..Len(ty.fields) : is_zst(ty.fields[i].ty)}) = 1
    /\ \A i \in 1..Len(ty.fields) : is_zst(ty.fields[i].ty) => ty.fields[i].ty = PhantomData
    /\ Len(ty.args) = 1

\* what the type table gives for the listed shapes: bool, integers, fixed-size arrays,
\* tuples with a first element, immutable references (a component that aborts makes
\* the whole abort)
ListedType(ty) ==
    CASE ty.k = "Bool" -> BoogieBool
      [] ty.k \in {"Int", "Uint"} -> Bv(WidthOf(ty))
      [] ty.k = "Array" ->
            IF IsPanic(codegen_type(ty.ty)) THEN PANIC ELSE BoogieArray(codegen_type(ty.ty), 0)
      [] ty.k = "Tuple" -> codegen_type(ty.tys[1])
      [] ty.k = "Ref" -> codegen_type(ty.ty)

IsListed(ty) ==
    \/ ty.k \in {"Bool", "Int", "Uint", "Array"}
    \/ ty.k = "Tuple" /\ Len(ty.tys) > 0
    \/ ty.k = "Ref" /\ ~ty.mut

\* C16 as stated: codegen_type yields the listed type for bool, integers, fixed-size
\* arrays, tuples and immutable references; a mutable reference and every shape not
\* listed abort.
C16_ListedOrAbort ==
    (arg.f = "codegen_type" /\ ret # NoArg) =>
        /\ IsListed(arg.ty) => ret.typ = ListedType(arg.ty)
        /\ (arg.ty.k = "Ref" /\ arg.ty.mut) => IsPanic(ret.typ)
        /\ (arg.ty.k \notin {"Bool", "Int", "Uint", "Array", "Tuple", "Ref"}) => IsPanic(ret.typ)

\* C16 amended: as stated for the listed shapes; in addition the dynamic-array
\* abstraction type in its expected shape yields DataType("$UnboundedArray", [lower(T)])
\* (aborting when lower(T) aborts); the empty tuple, a mutable reference and every
\* other shape abort.
C16_ListedOrUnboundedArrayOrAbort ==
    (arg.f = "codegen_type" /\ ret # NoArg) =>
        /\ IsListed(arg.ty) => ret.typ = ListedType(arg.ty)
        /\ IsUnboundedArray(arg.ty) =>
              ret.typ = IF IsPanic(codegen_type(arg.ty.args[1])) THEN PANIC
                        ELSE DataType("$UnboundedArray", <<codegen_type(arg.ty.args[1])>>)
        /\ (~IsListed(arg.ty) /\ ~IsUnboundedArray(arg.ty)) => IsPanic(ret.typ)

\* kani::array::Array<&u32> lowered to the datatype over the referent's type
C16_Witness ==
    /\ arg.f = "codegen_type"
    /\ arg.ty = KaniArray(TyRef(FALSE, U32))
    /\ ret = [typ |-> DataType("$UnboundedArray", <<Bv(32)>>)]


\* C17: a statement of any kind other than an assignment aborts the translation of
\* the function: once one was read the translator is aborted, no Procedure is returned
\* and the Program is unchanged; every statement that was lowered is an assignment, and
\* while the translation goes on each statement read has its own lowered statement.
C17_NonAssignAborts ==
    /\ (\E i \in 1..Len(Source) : Source[i].k # "Assign")
          => pc = "aborted" /\ result = NoProcedure /\ program = add_preamble
    /\ \A i \in 1..Len(Trace) : Trace[i].src.k = "Assign"
    /\ pc = "body" => (pos <= Len(Rpo) => Len(cur) = Len(SrcOf(pos)))
    /\ result # NoProcedure =>
          \A k \in 1..Len(Rpo) :
              /\ \A j \in 1..Len(SrcOf(k)) : SrcOf(k)[j].k = "Assign"
              /\ Len(SrcOf(k)) > 0 => Len(blocks[k].statements) = Len(SrcOf(k)) + 1

\* a storage marker read after an assignment was lowered: the translation is aborted
\* with the assignment's statement still the only one of the block
C17_Witness ==
    /\ pc = "aborted"
    /\ Len(Source) = 2
    /\ Source[1].k = "Assign"
    /\ Source[2].k = "StorageLive"
    /\ Len(cur) = 1
    /\ result = NoProcedure


\* the lowered operands of the binary operation applied
LowerLhs == codegen_operand(BinOpBody, <<>>, arg.rvalue.lhs)
LowerRhs == codegen_operand(BinOpBody, <<>>, arg.rvalue.rhs)

\* C18: for Lt and Ge, operands of different source types abort and so do operands
\* of a non-integer type; on a signed integer type the lowering calls
\* $BvSignedLessThan and on an unsigned one $BvUnsignedLessThan, on (lower(lhs),
\* lower(rhs)) in that order; Lt is the call itself and Ge the negation of that call.
C18_OrderingComparison ==
    (/\ arg.f = "codegen_rvalue"
     /\ ret # NoArg
     /\ arg.rvalue.binop \in {"Lt", "Ge"}) =>
        LET lt == arg.local_decls[1]
            rt == arg.local_decls[2]
            call == function_call(IF lt.k = "Int" THEN "$BvSignedLessThan"
                                  ELSE "$BvUnsignedLessThan",
                                  <<LowerLhs, LowerRhs>>)
        IN  /\ lt # rt => IsPanic(ret.expr)
            /\ lt.k \notin {"Int", "Uint"} => IsPanic(ret.expr)
            /\ (lt = rt /\ lt.k \in {"Int", "Uint"}) =>
                  /\ ret.side = NoneStmt
                  /\ ret.expr = IF arg.rvalue.binop = "Lt" THEN call ELSE ExprNot(call)

\* _0 >= 1 on i32: the negation of the signed less-than call on (_0, 1bv32)
C18_Witness ==
    /\ arg.f = "codegen_rvalue"
    /\ arg.rvalue.binop = "Ge"
    /\ arg.local_decls = <<I32, I32>>
    /\ ret = [side |-> NoneStmt,
              expr |-> ExprNot(function_call("$BvSignedLessThan",
                                             <<Symbol("_0"), ExprLiteral(LiteralBv(32, 1))>>))]


\* C19: Add and AddUnchecked, as a binary or as a checked binary operation, lower to
\* the call of $BvAdd on (lower(lhs), lower(rhs)) when both operands have the same
\* integer source type, and abort when the types differ or are not an integer type;
\* Eq lowers to the native Eq on the two lowered operands.
C19_AdditionAndEquality ==
    (arg.f = "codegen_rvalue" /\ ret # NoArg) =>
        LET lt == arg.local_decls[1]
            rt == arg.local_decls[2]
        IN  /\ arg.rvalue.binop \in {"Add", "AddUnchecked"} =>
                  IF lt = rt /\ lt.k \in {"Int", "Uint"}
                  THEN /\ ret.side = NoneStmt
                       /\ ret.expr.e = "FunctionCall"
                       /\ ret.expr.symbol = "$BvAdd"
                       /\ ret.expr.arguments = <<LowerLhs, LowerRhs>>
                  ELSE IsPanic(ret.expr)
            /\ arg.rvalue.binop = "Eq" =>
                  IF IsPanic(LowerLhs) \/ IsPanic(LowerRhs)
                  THEN IsPanic(ret.expr)
                  ELSE /\ ret.side = NoneStmt
                       /\ ret.expr = ExprBinaryOp("Eq", LowerLhs, LowerRhs)

\* the checked addition _0 + 1 on isize: the call of $BvAdd on (_0, 1bv64)
C19_Witness ==
    /\ arg.f = "codegen_rvalue"
    /\ arg.rvalue.r = "CheckedBinaryOp"
    /\ arg.rvalue.binop = "Add"
    /\ arg.local_decls = <<TyInt("Isize"), TyInt("Isize")>>
    /\ ret = [side |-> NoneStmt,
              expr |-> function_call("$BvAdd", <<Symbol("_0"), ExprLiteral(LiteralBv(64, 1))>>)]


\* C20: a scalar integer constant of type bool lowers to a Bool literal, one of an
\* integer type to a bit-vector literal of the type's bit width (8, 16, 32, 64 or 128;
\* 64 for isize and usize); a constant that is not a value, a value that is not a
\* scalar, a scalar that is not an integer, and a constant of any other type abort.
C20_ConstantLiteral ==
    (arg.f = "codegen_constant" /\ ret # NoArg) =>
        LET c == arg.c
            scalar == c.ck = "Val" /\ c.vk = "Scalar" /\ c.sk = "Int"
        IN  /\ (scalar /\ c.ty.k = "Bool") =>
                  /\ ret.expr.e = "Literal"
                  /\ ret.expr.lit = LiteralBool(c.value = 1)
            /\ (scalar /\ c.ty.k \in {"Int", "Uint"}) =>
                  /\ ret.expr.e = "Literal"
                  /\ ret.expr.lit.l = "Bv"
                  /\ ret.expr.lit.width = WidthOf(c.ty)
                  /\ ret.expr.lit.width \in {8, 16, 32, 64, 128}
            /\ ~(scalar /\ c.ty.k \in {"Bool", "Int", "Uint"}) => IsPanic(ret.expr)

\* the constant 2 of type i16 lowered to a literal of 16 bits
C20_Witness ==
    /\ arg.f = "codegen_constant"
    /\ arg.c = ConstScalar(2, TyInt("I16"))
    /\ ret = [expr |-> ExprLiteral(LiteralBv(16, 2))]


----------------------------------------------------------------------------
(* Two translators on one context *)

\* the state of a second FunctionCtx, kept in arg, before it is created
SecondIdle ==
    [f |-> "FunctionCtx", mir |-> NoBody, ref_to_expr |-> <<>>, decl |-> <<>>,
     blocks |-> <<>>, pos |-> 0, pc |-> "idle", result |-> NoProcedure]

InitShared ==
    /\ Standalone
    /\ arg = SecondIdle

\* the first translator: codegen_function on a function the second is not working on
FirstCodegenFunction(f) ==
    /\ f.name # arg.mir.name
    /\ CodegenFunction(f)

\* the second translator, BoogieCtx::codegen_function up to the call of codegen_body
SecondCodegenFunction(f) ==
    /\ arg.pc = "idle"
    /\ ~f.intrinsic
    /\ f.name # mir.name
    /\ LET d == codegen_declare_variables(f.local_decls)
       IN  arg' = [arg EXCEPT !.mir = f, !.ref_to_expr = <<>>, !.decl = d.decls,
                              !.blocks = <<>>, !.pos = 1,
                              !.pc = IF d.panicked THEN "aborted" ELSE "body"]
    /\ UNCHANGED <<program, mir, ref_to_expr, decl, blocks, cur, pos, pc, result, ret>>

\* the second translator, codegen_block on a block without statements
SecondCodegenTerminator ==
    /\ arg.pc = "body"
    /\ arg.pos <= Len(reverse_postorder(arg.mir))
    /\ LET bb == reverse_postorder(arg.mir)[arg.pos]
           tcode == codegen_terminator(arg.mir, arg.ref_to_expr,
                                       arg.mir.blocks[bb + 1].terminator)
       IN  arg' = IF IsPanic(tcode)
                  THEN [arg EXCEPT !.pc = "aborted"]
                  ELSE [arg EXCEPT !.blocks = Append(@, block(<<Label(BlockName(bb), tcode)>>)),
                                   !.pos = @ + 1]
    /\ UNCHANGED <<program, mir, ref_to_expr, decl, blocks, cur, pos, pc, result, ret>>

\* the second translator, the end of codegen_body and of codegen_function
SecondReturnProcedure ==
    /\ arg.pc = "body"
    /\ arg.pos > Len(reverse_postorder(arg.mir))
    /\ arg' = [arg EXCEPT !.pc = "done",
                          !.result = Procedure(arg.mir.name, <<>>, <<>>, "None",
                                               Block(Append(arg.decl, Block(arg.blocks))))]
    /\ UNCHANGED <<program, mir, ref_to_expr, decl, blocks, cur, pos, pc, result, ret>>

\* BoogieCtx::add_procedure with the second translator's procedure
SecondAddProcedure ==
    /\ arg.pc = "done"
    /\ program' = add_procedure(program, arg.result)
    /\ arg' = [arg EXCEPT !.pc = "added"]
    /\ UNCHANGED <<mir, ref_to_expr, decl, blocks, cur, pos, pc, result, ret>>

\* every interleaving of the two translators' steps, add_procedure one at a time
NextShared ==
    \/ \E f \in Functions : FirstCodegenFunction(f)
    \/ CodegenTerminator
    \/ ReturnProcedure
    \/ AddProcedure
    \/ \E f \in Functions : SecondCodegenFunction(f)
    \/ SecondCodegenTerminator
    \/ SecondReturnProcedure
    \/ SecondAddProcedure

SpecShared == InitShared /\ [][NextShared]_vars

\* the procedure for a body without statements, translated on its own from start to end
RECURSIVE BlocksAlone(_, _)
BlocksAlone(body, k) ==
    IF k > Len(reverse_postorder(body)) THEN <<>>
    ELSE LET bb == reverse_postorder(body)[k]
         IN  <<block(<<Label(BlockName(bb),
                             codegen_terminator(body, <<>>, body.blocks[bb + 1].terminator))>>)>>
             \o BlocksAlone(body, k + 1)

ProcedureAlone(body) ==
    Procedure(body.name, <<>>, <<>>, "None",
              Block(Append(codegen_declare_variables(body.local_decls).decls,
                           Block(BlocksAlone(body, 1)))))

\* C21: with two translators on different functions sharing the context, under every
\* interleaving of their steps the Program is written by add_procedure only, each
\* procedure produced is the one the function yields when translated alone, and once
\* both are added the Program is the preamble and the two procedures in the order of
\* their add_procedure calls.
C21_SharedContextReadOnly ==
    /\ [](/\ result # NoProcedure => result = ProcedureAlone(mir)
          /\ arg.result # NoProcedure => arg.result = ProcedureAlone(arg.mir)
          /\ program.functions = add_preamble.functions
          /\ program.datatypes = add_preamble.datatypes
          /\ (pc = "added" /\ arg.pc = "added") =>
                program.procedures \in {<<result, arg.result>>, <<arg.result, result>>})
    /\ [][\/ program' = program
          \/ /\ pc = "done" /\ pc' = "added"
             /\ program'.procedures = Append(program.procedures, result)
          \/ /\ arg.pc = "done" /\ arg'.pc = "added"
             /\ program'.procedures = Append(program.procedures, arg.result)]_vars

\* the second translator added its procedure while the first was in the middle of a
\* body, and the first added its own afterwards
C21_Witness ==
    /\ pc = "added"
    /\ arg.pc = "added"
    /\ mir.name = "branch"
    /\ arg.mir.name = "alias2"
    /\ program.procedures = <<ProcedureAlone(arg.mir), ProcedureAlone(mir)>>


\* the fold of a place's projections, each step looking at the type projected at
\* that step: Index(acc, Symbol(index local)) for an index, Field(acc, field name)
\* for a field of a record type, the accumulator itself for a tuple field and for
\* every other projection
RECURSIVE FoldByStep(_, _, _, _)
FoldByStep(ty, acc, projection, i) ==
    IF i > Len(projection) THEN acc
    ELSE LET pe == projection[i]
             next == CASE pe.p = "Index" -> ExprIndex(acc, Symbol(LocalName(pe.local)))
                       [] pe.p = "Field" /\ ty.k = "Adt" -> ExprField(acc, ty.fields[pe.f + 1].name)
                       [] OTHER -> acc
         IN  FoldByStep(ProjTy(ty, <<pe>>, 1), next, projection, i + 1)

\* C22: lowering a place returns the alias recorded for exactly that place when there
\* is one; otherwise the Symbol of the base local folded through the projections from
\* left to right: an index gives Index(acc, Symbol(index local)), a field of a record
\* type Field(acc, field name), a tuple field and any other projection the
\* accumulator unchanged.
C22_PlaceAliasOrFold ==
    (arg.f = "codegen_place" /\ ret # NoArg) =>
        IF arg.place \in DOMAIN arg.refs
        THEN ret.expr = arg.refs[arg.place]
        ELSE ret.expr = FoldByStep(arg.local_decls[arg.place.local + 1],
                                   Symbol(LocalName(arg.place.local)),
                                   arg.place.projection, 1)

\* (*_2).b with _2: &Outer and no alias for that place: the field projection is on
\* the record Outer, and the lowering aborts instead of giving a Field node
C22_Witness ==
    /\ arg.f = "codegen_place"
    /\ arg.place = Place(2, <<Deref, FieldProj(1, U32)>>)
    /\ arg.place \notin DOMAIN arg.refs
    /\ ret # NoArg
    /\ IsPanic(ret.expr)


\* every projection of the place is a field projection on a record type
RECURSIVE RecordFieldsOnly(_, _, _)
RecordFieldsOnly(ty, projection, i) ==
    i > Len(projection)
    \/ (/\ projection[i].p = "Field"
        /\ ty.k = "Adt"
        /\ RecordFieldsOnly(projection[i].ty, projection, i + 1))

\* the field names of the nested Field nodes of an expression, innermost first
RECURSIVE FieldNames(_)
FieldNames(expr) ==
    IF expr.e = "Field" THEN Append(FieldNames(expr.base), expr.field) ELSE <<>>

\* the name of the field selected at each step, in the type projected at that step
RECURSIVE StepNames(_, _, _)
StepNames(ty, projection, i) ==
    IF i > Len(projection) THEN <<>>
    ELSE <<ty.fields[projection[i].f + 1].name>> \o StepNames(projection[i].ty, projection, i + 1)

\* C30: for a place with two or more field projections, all on record types, and no
\* alias of its own, the Field nodes emitted carry, from the innermost outwards, the
\* name of the field selected at each step in the type projected at that step.
C30_FieldNamePerStep ==
    (/\ arg.f = "codegen_place"
     /\ ret # NoArg
     /\ arg.place \notin DOMAIN arg.refs
     /\ Len(arg.place.projection) >= 2
     /\ RecordFieldsOnly(arg.local_decls[arg.place.local + 1], arg.place.projection, 1)) =>
        /\ ~IsPanic(ret.expr)
        /\ FieldNames(ret.expr) =
              StepNames(arg.local_decls[arg.place.local + 1], arg.place.projection, 1)

\* _0.a.y with _0: Outer: the outer Field node is named b, the second field of Outer
C30_Witness ==
    /\ arg.f = "codegen_place"
    /\ arg.place = Place(0, <<FieldProj(0, Inner), FieldProj(1, U32)>>)
    /\ ret = [expr |-> ExprField(ExprField(Symbol("_0"), "a"), "b")]


----------------------------------------------------------------------------
(* Functions with references translated one after the other on one context *)

\* a function of one block, _0: u32 and _1: &mut u32, whose statements take
\* references and write through them
AliasFunction == Body("seq", {"Const", "Ref"}, <<U32, MutRef(U32)>>, <<TermReturn>>)

\* codegen_function called again after the first procedure was added
SecondFunction ==
    /\ pc = "added"
    /\ program.procedures = <<result>>
    /\ pc' = "idle"
    /\ UNCHANGED <<program, mir, ref_to_expr, decl, blocks, cur, pos, result, arg, ret>>

NextSequence ==
    \/ CodegenFunction(AliasFunction)
    \/ \E stmt \in Statements(mir) : CodegenStatement(stmt)
    \/ CodegenTerminator
    \/ ReturnProcedure
    \/ AddProcedure
    \/ SecondFunction

SpecSequence == Init /\ [][NextSequence]_vars

\* the entry of the k-th visited block, every statement lowered with the aliases of
\* the statements of this body that precede it, starting from none
BlockAlone(k) ==
    LET n == Len(SrcOf(k))
    IN  IF n = 0 THEN Label(BlockName(Rpo[k]), LoweredTerm(k))
        ELSE Block([j \in 1..(n + 1) |->
                      IF j = 1 THEN Label(BlockName(Rpo[k]), Lowered(k, 1))
                      ELSE IF j <= n THEN Lowered(k, j)
                      ELSE LoweredTerm(k)])

\* the procedure of the body under translation, from its own statements alone
ProcedureOf ==
    Procedure(mir.name, <<>>, <<>>, "None",
              Block(Append(codegen_declare_variables(mir.local_decls).decls,
                           Block([k \in 1..Len(Rpo) |-> BlockAlone(k)]))))

\* C23: a translation starts with an empty alias table and its table holds the
\* aliases recorded by the statements of its own function only, also when another
\* function was translated before on the same context; the procedure produced is the
\* one determined by the function's own statements.
C23_AliasTablePerFunction ==
    /\ (pc = "body" /\ Len(Source) = 0) => ref_to_expr = <<>>
    /\ pc = "body" => ref_to_expr = RefsAfter(Len(Source))
    /\ result # NoProcedure => result = ProcedureOf

\* after a first function that recorded the alias of _1, a second function writing
\* through _1 without taking a reference first: no alias is found, it aborts
C23_Witness ==
    /\ Len(program.procedures) = 1
    /\ BodyOf(program.procedures[1])[1].s = "Block"
    /\ BodyOf(program.procedures[1])[1].statements[1] = Label(BlockName(0), Null)
    /\ pc = "aborted"
    /\ Len(Source) = 1
    /\ Source[1].k = "Assign"
    /\ Source[1].place = Place(1, <<Deref>>)
    /\ ref_to_expr = <<>>


\* where control is after a statement of the emitted body: the labels it may jump
\* to, "return" when it may leave the procedure, "fall" when it may go on to the
\* statement that follows
RECURSIVE Exits(_)
RECURSIVE ExitsSeq(_, _)
Exits(stmt) ==
    CASE stmt.s = "Goto" -> {stmt.label}
      [] stmt.s = "Return" -> {"return"}
      [] stmt.s = "If" -> Exits(stmt.body) \cup Exits(stmt.else_body)
      [] stmt.s = "Label" -> Exits(stmt.statement)
      [] stmt.s = "Block" -> ExitsSeq(stmt.statements, 1)
      [] OTHER -> {"fall"}
ExitsSeq(statements, i) ==
    IF i > Len(statements) THEN {"fall"}
    ELSE LET e == Exits(statements[i])
         IN  IF "fall" \in e
             THEN (e \ {"fall"}) \cup ExitsSeq(statements, i + 1)
             ELSE e

\* the label of the entry emitted after the k-th one, "end" after the last
NextEmitted(out, k) ==
    IF k = Len(out) THEN "end"
    ELSE IF out[k + 1].s = "Label" THEN out[k + 1].label
    ELSE out[k + 1].statements[1].label

\* where control is after the entry of the k-th emitted block
ContinuesAt(out, k) ==
    LET e == Exits(out[k])
    IN  IF "fall" \in e THEN (e \ {"fall"}) \cup {NextEmitted(out, k)} ELSE e

\* the labels of the successors of a block in the source graph, "return" for Return
SuccessorLabels(term) ==
    IF term.t = "Return" THEN {"return"}
    ELSE {BlockName(successors(term)[i]) : i \in 1..Len(successors(term))}

\* C24: in a procedure produced, after the code emitted for a block ending in a
\* Goto, a two-way switch, an Assert or a Return, control is at a successor of that
\* block in the source graph (or leaves the procedure, for Return), never at another
\* block that happens to be emitted next.
C24_ControlFollowsGraph ==
    result # NoProcedure =>
        \A k \in 1..Len(BodyOf(result)) :
            TermOf(k).t \in {"Goto", "SwitchInt", "Assert", "Return"} =>
                ContinuesAt(BodyOf(result), k) \subseteq SuccessorLabels(TermOf(k))

\* bb2 ends in an Assert with target bb3 and is emitted before bb1: after the code
\* of bb2 control is at bb1, where an assignment of bb1 is executed
C24_Witness ==
    /\ result # NoProcedure
    /\ mir.name = "diamond"
    /\ Rpo = <<0, 2, 1, 3>>
    /\ ContinuesAt(BodyOf(result), 2) = {BlockName(1)}
    /\ BodyOf(result)[3].s = "Block"
    /\ BodyOf(result)[3].statements[1].statement.s = "Assignment"


\* the names of the Symbols occurring in an expression
RECURSIVE SymbolsOf(_)
SymbolsOf(expr) ==
    CASE expr.e = "Symbol" -> {expr.name}
      [] expr.e \in {"UnaryOp", "SignExtend", "ZeroExtend"} -> SymbolsOf(expr.operand)
      [] expr.e = "BinaryOp" -> SymbolsOf(expr.left) \cup SymbolsOf(expr.right)
      [] expr.e = "FunctionCall" ->
            UNION {SymbolsOf(expr.arguments[i]) : i \in 1..Len(expr.arguments)}
      [] expr.e = "Index" -> SymbolsOf(expr.base) \cup SymbolsOf(expr.index)
      [] expr.e \in {"Field", "Extract"} -> SymbolsOf(expr.base)
      [] OTHER -> {}

\* the local names a statement of the emitted body reads or assigns
RECURSIVE NamesUsed(_)
NamesUsed(stmt) ==
    CASE stmt.s = "Assignment" ->
            {stmt.target[i] : i \in {i \in 1..Len(stmt.target) :
                                        \E n \in 1..Len(LocalNames) : LocalNames[n] = stmt.target[i]}}
            \cup SymbolsOf(stmt.value)
      [] stmt.s = "Block" -> UNION {NamesUsed(stmt.statements[i]) : i \in 1..Len(stmt.statements)}
      [] stmt.s = "Label" -> NamesUsed(stmt.statement)
      [] stmt.s = "If" ->
            SymbolsOf(stmt.condition) \cup NamesUsed(stmt.body) \cup NamesUsed(stmt.else_body)
      [] OTHER -> {}

\* the names declared by the Decl statements of a procedure
DeclNames(procedure) ==
    {procedure.body.statements[i].name :
        i \in {i \in 1..Len(procedure.body.statements) : procedure.body.statements[i].s = "Decl"}}

\* C25: in every procedure produced, every Symbol of an emitted expression and every
\* Assignment target names a local the procedure declares; so a local of
\* mutable-reference type, never declared, is never read or assigned by name.
C25_OnlyDeclaredNames ==
    result # NoProcedure => NamesUsed(result.body) \subseteq DeclNames(result)

\* `_2 = &mut _0; _3 = move _2`, _2 and _3 of type &mut u32: the procedure assigns
\* _3, which it does not declare
C25_Witness ==
    /\ result # NoProcedure
    /\ mir.name = "alias1"
    /\ Len(Trace) = 2
    /\ Trace[2].src = Assign(Place(3, <<>>), Use(Move(Place(2, <<>>))))
    /\ Trace[2].out = Assignment(<<"_3">>, Symbol("_0"))
    /\ "_3" \in NamesUsed(result.body)
    /\ "_3" \notin DeclNames(result)


\* C26: after `r := &x` (x a local that is no reference) and `r2 := &(*r)`, r not
\* assigned in between, the alias recorded for r2 is the lowered x, and a later
\* `*r2 := v` (r2 not assigned in between) emits an Assignment whose target is x.
C26_ReborrowResolves ==
    \A i, j \in 1..Len(Source) :
        LET a == Source[i]
            b == Source[j]
        IN  (/\ i < j
             /\ a.k = "Assign" /\ b.k = "Assign"
             /\ a.rvalue.r = "Ref" /\ a.place.projection = <<>>
             /\ a.rvalue.place.projection = <<>>
             /\ LocalTy(mir, a.rvalue.place.local).k # "Ref"
             /\ b.rvalue.r = "Ref" /\ b.place.projection = <<>>
             /\ b.place # a.place
             /\ b.rvalue.place = Place(a.place.local, <<Deref>>)
             /\ \A m \in (i + 1)..(j - 1) : Source[m].k = "Assign" /\ Source[m].place # a.place)
            => /\ b.place \in DOMAIN RefsAfter(j)
               /\ RefsAfter(j)[b.place] = Symbol(LocalName(a.rvalue.place.local))
               /\ \A m \in (j + 1)..Len(Trace) :
                     (/\ Source[m].place = Place(b.place.local, <<Deref>>)
                      /\ Source[m].rvalue.r # "Ref"
                      /\ \A n \in (j + 1)..(m - 1) : Source[n].place # b.place)
                     => Trace[m].out.target = <<LocalName(a.rvalue.place.local)>>

\* `_2 = &mut _0; _3 = &mut (*_2)`: the alias recorded for _3 is the Symbol _2
C26_Witness ==
    /\ pc = "body"
    /\ Len(Source) = 2
    /\ Source[1] = Assign(Place(2, <<>>), Ref("Mut", Place(0, <<>>)))
    /\ Source[2] = Assign(Place(3, <<>>), Ref("Mut", Place(2, <<Deref>>)))
    /\ ref_to_expr[Place(2, <<>>)] = Symbol("_0")
    /\ ref_to_expr[Place(3, <<>>)] = Symbol("_2")


\* C27: in the If emitted for a two-target switch over an unsigned integer, the
\* literal compared with the discriminant is a bit-vector literal of the width of the
\* discriminant's lowered type, one of 8, 16, 32, 64 and 128.
C27_SwitchLiteralWidth ==
    (/\ ret # NoArg
     /\ arg.f = "codegen_switch_int"
     /\ Len(arg.arms) = 1
     /\ arg.local_decls[1].k = "Uint"
     /\ ret.s = "If")
    => /\ ret.condition.right.e = "Literal"
       /\ ret.condition.right.lit.l = "Bv"
       /\ Bv(ret.condition.right.lit.width) = codegen_type(arg.local_decls[1])
       /\ ret.condition.right.lit.width \in {8, 16, 32, 64, 128}

\* the switch of a u8 discriminant, {1 -> bb1, otherwise -> bb2}: the discriminant
\* has the type bv8 and the literal compared with it is 1bv128
C27_Witness ==
    /\ arg.f = "codegen_switch_int"
    /\ arg.local_decls = <<U8>>
    /\ arg.arms = <<<<1, 1>>>>
    /\ arg.otherwise = 2
    /\ codegen_type(arg.local_decls[1]) = Bv(8)
    /\ ret = If(ExprBinaryOp("Eq", Symbol("_0"), ExprLiteral(LiteralBv(128, 1))),
                Goto(BlockName(1)), Goto(BlockName(2)))


\* the labels of the Label statements of an emitted statement, one entry per statement
RECURSIVE LabelsOf(_)
RECURSIVE LabelsOfSeq(_, _)
LabelsOf(stmt) ==
    CASE stmt.s = "Label" -> <<stmt.label>> \o LabelsOf(stmt.statement)
      [] stmt.s = "Block" -> LabelsOfSeq(stmt.statements, 1)
      [] stmt.s = "If" -> LabelsOf(stmt.body) \o LabelsOf(stmt.else_body)
      [] OTHER -> <<>>
LabelsOfSeq(statements, i) ==
    IF i > Len(statements) THEN <<>>
    ELSE LabelsOf(statements[i]) \o LabelsOfSeq(statements, i + 1)

\* the labels named by the Goto statements of an emitted statement
RECURSIVE GotosOf(_)
GotosOf(stmt) ==
    CASE stmt.s = "Goto" -> {stmt.label}
      [] stmt.s = "Label" -> GotosOf(stmt.statement)
      [] stmt.s = "Block" -> UNION {GotosOf(stmt.statements[i]) : i \in 1..Len(stmt.statements)}
      [] stmt.s = "If" -> GotosOf(stmt.body) \cup GotosOf(stmt.else_body)
      [] OTHER -> {}

\* C28: in every procedure produced, no two Label statements carry the same label,
\* and every label named by a Goto, from a jump or from either branch of a switch,
\* is the label of exactly one Label statement of the body.
C28_LabelsUniqueAndDefined ==
    result # NoProcedure =>
        LET labels == LabelsOf(result.body)
        IN  /\ \A i, j \in 1..Len(labels) : labels[i] = labels[j] => i = j
            /\ \A g \in GotosOf(result.body) :
                  Cardinality({i \in 1..Len(labels) : labels[i] = g}) = 1

\* the procedure of the three-block body with a switch: Gotos to bb1 and bb2 from
\* the switch and to bb2 from bb1, and one Label for each of bb0, bb1 and bb2
C28_Witness ==
    /\ result # NoProcedure
    /\ mir.name = "branch"
    /\ GotosOf(result.body) = {BlockName(1), BlockName(2)}
    /\ Len(LabelsOf(result.body)) = 3


RECURSIVE Pow2(_)
Pow2(n) == IF n = 0 THEN 1 ELSE 2 * Pow2(n - 1)

\* C29: the value v of a bit-vector literal produced by constant lowering is not
\* negative and below 2^width (compared here for the widths 8 and 16), and for a
\* negative constant of a signed type it is the two's-complement pattern of the
\* constant at that width, 2^width + c.
C29_LiteralValueInRange ==
    (/\ arg.f = "codegen_constant"
     /\ ret # NoArg
     /\ ~IsPanic(ret.expr)
     /\ ret.expr.lit.l = "Bv")
    => LET v == ret.expr.lit.value
           w == ret.expr.lit.width
       IN  /\ v >= 0
           /\ w <= 16 => v < Pow2(w)
           /\ (w <= 16 /\ arg.c.value < 0) => v = Pow2(w) + arg.c.value

\* the constant -1 of type i8: the literal of width 8 carries the value -1, not 255
C29_Witness ==
    /\ arg.f = "codegen_constant"
    /\ arg.c = ConstScalar(-1, TyInt("I8"))
    /\ ret = [expr |-> ExprLiteral(LiteralBv(8, -1))]

====
